---- MODULE Spec2Model ----
(***************************************************************************)
(* Model of ichnaea/scripts/datamap.py: the job batch executor             *)
(* (watch_jobs) and the tile sync engine (get_sync_plan, sync_tiles,       *)
(* upload_status_file) against an S3-like object store, the create phase   *)
(* of generate and main; and cluster_wifis of ichnaea/api/locate/wifi.py.  *)
(***************************************************************************)
EXTENDS Integers, Sequences, FiniteSets, TLC

(***************************************************************************)
(* Bounds of the model.                                                    *)
(***************************************************************************)
\* longest job list handed to watch_jobs by the stand-alone executor runs
MaxJobs == 3
\* largest value the Timer clock reaches, in seconds
MaxElapsed == 12
\* granularity of the Timer clock readings, in seconds
ClockStep == 3
\* number of consecutive sync runs of generate(upload=True)
MaxRuns == 2
\* keys per list_objects_v2 page (1000 in S3, scaled down)
PageSize == 2
\* sync_tiles(delete_batch_size=100), scaled down so that batches split
delete_batch_size == 2

\* largest grid key of a shard table
MaxGrid == 4
\* largest row_limit and file_limit export_to_csv is called with
MaxRowLimit == 2
MaxFileLimit == 2
\* row_limit or 200_000 and file_limit or 10_000_000, scaled down so that
\* the tables of the model fill pages and files
DefaultRowLimit == 1
DefaultFileLimit == 1

\* watch_jobs(progress_seconds=5.0)
progress_seconds == 5

\* most networks in a call of cluster_wifis
MaxWifis == 4
\* largest latitude of a network, in steps of MAX_WIFI_CLUSTER_METERS
MaxCoord == 3
\* ichnaea.api.locate.constants.MAX_WIFI_CLUSTER_METERS, with the step
\* between two neighbouring latitudes as the unit
MAX_WIFI_CLUSTER_METERS == 1

\* generate(max_zoom=11), scaled down to the zoom levels 0 and 1
max_zoom == 1

\* get_sync_plan / sync_tiles / upload_status_file (bucket_prefix="tiles/")
bucket_prefix == "tiles/"

(***************************************************************************)
(* Files, keys and contents.                                               *)
(***************************************************************************)
\* relative tile paths <zoom>/<x>/<y>[@2x].png, in ascending string order
PngNames == {"0/0/0.png", "0/0/0@2x.png", "1/1/0.png"}
\* the status object written by upload_status_file
StatusName == "data.json"
\* a local file of the tiles directory that is no .png
LocalOther == "tiles.log"
\* every name, in ascending string order ("." < "/" < "@", digits < letters)
NameOrder == <<"0/0/0.png", "0/0/0@2x.png", "1/1/0.png", "data.json", "tiles.log">>

Rank(name) == CHOOSE i \in 1..Len(NameOrder) : NameOrder[i] = name

\* str.endswith(".png")
EndsWithPng(name) == name \in PngNames

\* file contents, with their byte size and MD5 digest
Contents == {"c1", "c2"}
\* the file generate_tile has opened for writing and pngquant wrote no image to
Truncated == "c0"
SizeOf(c) == CASE c = "c1" -> 1 [] c = "c2" -> 1 [] c = Truncated -> 0
MD5(c) == CASE c = "c1" -> "h1" [] c = "c2" -> "h2" [] c = Truncated -> "h0"

\* bucket_prefix + path
Key(prefix, path) == <<prefix, path>>
\* key[len(bucket_prefix):]
StripPrefix(key) == key[2]
\* an object of the bucket outside the tile prefix
OtherKey == Key("static/", "0/0/0.png")

\* the ETag header of an object, a quoted string, and ETag.strip('"')
Quoted(h) == <<"\"", h, "\"">>
StripQuotes(e) == e[2]

\* set of elements of a sequence
Range(s) == {s[i] : i \in 1..Len(s)}

\* all orderings of a finite set, as sequences without repetition
Orderings(S) == {s \in [1..Cardinality(S) -> S] : Range(s) = S}

\* sorted(names): ascending string order
RECURSIVE Sorted(_)
Sorted(S) ==
    IF S = {} THEN <<>>
    ELSE LET m == CHOOSE x \in S : \A y \in S : Rank(x) <= Rank(y)
         IN <<m>> \o Sorted(S \ {m})

(***************************************************************************)
(* The remote store (S3) as the sync engine sees it.  A store is a         *)
(* function from keys to [size, etag].                                     *)
(***************************************************************************)
\* keys of the store under a prefix, in the ascending order S3 lists them
ListedKeys(store, prefix) ==
    LET names == {k[2] : k \in {x \in DOMAIN store : x[1] = prefix}}
        sorted == Sorted(names)
    IN [i \in 1..Len(sorted) |-> Key(prefix, sorted[i])]

\* list_objects_v2(Bucket, Prefix, ContinuationToken): one page of the
\* listing; the continuation token is the position of the next key.  S3
\* leaves "Contents" out of a response that lists no key.
list_objects_v2(store, prefix, token) ==
    LET keys == ListedKeys(store, prefix)
        first == token + 1
        last == IF first + PageSize - 1 < Len(keys)
                THEN first + PageSize - 1 ELSE Len(keys)
        page == [Contents |-> [i \in 1..(last - first + 1) |->
                        [Key |-> keys[first + i - 1],
                         ETag |-> Quoted(store[keys[first + i - 1]].etag),
                         Size |-> store[keys[first + i - 1]].size]],
                 IsTruncated |-> last < Len(keys),
                 NextContinuationToken |-> last]
    IN IF last < first
       THEN [IsTruncated |-> FALSE, NextContinuationToken |-> last]
       ELSE page

\* the for loop over response["Contents"] of get_current_objects
RECURSIVE ProcessContents(_, _, _)
ProcessContents(contents, prefix, objects) ==
    IF contents = <<>> THEN objects
    ELSE LET metadata == Head(contents)
             key == metadata.Key
             name == StripPrefix(key)
             md5 == StripQuotes(metadata.ETag)
             size == metadata.Size
         IN ProcessContents(Tail(contents), prefix,
                IF EndsWithPng(key[2])
                THEN (name :> <<size, md5>>) @@ objects
                ELSE objects)

\* the locals of get_current_objects before its while loop; requests is the
\* list of the next_kwargs the calls of list_objects_v2 were made with
ListBegin ==
    [xpc |-> "list", objects |-> <<>>, more_to_fetch |-> TRUE,
     next_kwargs |-> 0, requests |-> <<>>]

\* one iteration of the while loop of get_current_objects: a missing
\* "Contents" raises KeyError out of the function
ListStep(fr, store, prefix) ==
    LET response == list_objects_v2(store, prefix, fr.next_kwargs)
        asked == Append(fr.requests, fr.next_kwargs)
    IN IF "Contents" \notin DOMAIN response
       THEN [fr EXCEPT !.xpc = "KeyError", !.requests = asked]
       ELSE [fr EXCEPT
                !.objects = ProcessContents(response.Contents, prefix, @),
                !.more_to_fetch = response.IsTruncated,
                !.next_kwargs = IF response.IsTruncated
                                THEN response.NextContinuationToken ELSE @,
                !.requests = asked]

\* the while loop of get_current_objects, up to its return or its exception
RECURSIVE FetchObjects(_, _, _)
FetchObjects(fr, store, prefix) ==
    IF fr.xpc = "KeyError" THEN fr
    ELSE IF fr.more_to_fetch THEN FetchObjects(ListStep(fr, store, prefix), store, prefix)
    ELSE [fr EXCEPT !.xpc = "returned"]

\* get_current_objects reading the first page only
get_current_objects_first_page(store, prefix) ==
    LET fr == ListStep(ListBegin, store, prefix)
    IN IF fr.xpc = "KeyError" THEN fr ELSE [fr EXCEPT !.xpc = "returned"]

\* get_current_objects(bucket_name, bucket_prefix): the frame at the end of
\* the call; its objects map name -> <<size, md5>>
get_current_objects(store, prefix) ==
    FetchObjects(ListBegin, store, prefix)

(***************************************************************************)
(* The local tiles directory: a function from relative paths to contents.  *)
(***************************************************************************)
tiles_dir == "/output/tiles"

\* the set of entries get_png_entries yields (os.scandir gives no order)
get_png_entries(tree) ==
    {[path |-> <<tiles_dir, n>>, st_size |-> SizeOf(tree[n])] :
        n \in {x \in DOMAIN tree : EndsWithPng(x)}}

\* png.path[len(tiles_dir):].lstrip("/")
ObjName(png) == png.path[2]

\* SyncStep comparing the hash alone, never the size
SyncStepHashOnly(acc, png, objects, tree) ==
    LET obj_name == ObjName(png)
    IN IF obj_name \in acc.remaining_objects
       THEN LET changed == MD5(tree[obj_name]) # objects[obj_name][2]
            IN [acc EXCEPT !.remaining_objects = @ \ {obj_name},
                           !.hashed = @ \cup {obj_name},
                           !.update = IF changed THEN Append(@, obj_name) ELSE @,
                           !.unchanged_count = IF changed THEN @ ELSE @ + 1]
       ELSE [acc EXCEPT !.upload = Append(@, obj_name)]

\* SyncStep reading and hashing the local file before it compares the sizes
SyncStepHashFirst(acc, png, objects, tree) ==
    LET obj_name == ObjName(png)
    IN IF obj_name \in acc.remaining_objects
       THEN LET changed == \/ png.st_size # objects[obj_name][1]
                           \/ MD5(tree[obj_name]) # objects[obj_name][2]
            IN [acc EXCEPT !.remaining_objects = @ \ {obj_name},
                           !.hashed = @ \cup {obj_name},
                           !.update = IF changed THEN Append(@, obj_name) ELSE @,
                           !.unchanged_count = IF changed THEN @ ELSE @ + 1]
       ELSE [acc EXCEPT !.upload = Append(@, obj_name)]

\* one iteration of the for loop of get_sync_actions; acc holds actions,
\* unchanged_count and remaining_objects, and the files opened and hashed
SyncStep(acc, png, objects, tree) ==
    LET obj_name == ObjName(png)
    IN IF obj_name \in acc.remaining_objects
       THEN LET obj_size == objects[obj_name][1]
                obj_md5 == objects[obj_name][2]
                local_size == png.st_size
                changed == IF local_size = obj_size
                           THEN MD5(tree[obj_name]) # obj_md5
                           ELSE TRUE
            IN [acc EXCEPT !.remaining_objects = @ \ {obj_name},
                           !.hashed = IF local_size = obj_size
                                      THEN @ \cup {obj_name} ELSE @,
                           !.update = IF changed THEN Append(@, obj_name) ELSE @,
                           !.unchanged_count = IF changed THEN @ ELSE @ + 1]
       ELSE [acc EXCEPT !.upload = Append(@, obj_name)]

RECURSIVE SyncLoop(_, _, _, _)
SyncLoop(acc, entries, objects, tree) ==
    IF entries = <<>> THEN acc
    ELSE SyncLoop(SyncStep(acc, Head(entries), objects, tree),
                  Tail(entries), objects, tree)

\* get_sync_actions(tiles_dir, objects), for the order in which the
\* directory scan yields the entries: <<actions, unchanged_count>>, and as
\* third component the files it read to hash them
get_sync_actions(entries, objects, tree) ==
    LET acc == SyncLoop([upload |-> <<>>, update |-> <<>>,
                         unchanged_count |-> 0,
                         remaining_objects |-> DOMAIN objects,
                         hashed |-> {}],
                        entries, objects, tree)
    IN <<[upload |-> acc.upload, update |-> acc.update,
          delete |-> Sorted(acc.remaining_objects)],
         acc.unchanged_count,
         acc.hashed>>

\* chunked yielding the full batches only
RECURSIVE chunkedFull(_, _)
chunkedFull(seq, n) ==
    IF Len(seq) < n THEN <<>>
    ELSE <<SubSeq(seq, 1, n)>> \o chunkedFull(SubSeq(seq, n + 1, Len(seq)), n)

\* more_itertools.chunked(seq, n)
RECURSIVE chunked(_, _)
chunked(seq, n) ==
    IF seq = <<>> THEN <<>>
    ELSE IF Len(seq) <= n THEN <<seq>>
    ELSE <<SubSeq(seq, 1, n)>> \o chunked(SubSeq(seq, n + 1, Len(seq)), n)

(***************************************************************************)
(* export_to_csv: a shard table is a function from grid keys (positive     *)
(* integers, the primary key) to the points random_points yields for the   *)
(* row, 0 to 6 in the program.  The CSV directory is a function from file  *)
(* names to sequences of lines.                                            *)
(***************************************************************************)
\* the points of the model
Points == {"p", "q"}
\* what random_points can yield for one row: no point, one or two
RowPoints == {<<>>, <<"p">>, <<"p", "q">>}

\* f"map_{shard_id}.csv"
MapName(shard_id) == <<"map", shard_id>>
\* "sub" + orig_filename.replace(".csv", f"_{file_count:04}.csv")
SubName(orig_filename, file_count) == <<"submap", orig_filename[2], file_count>>

\* value or default
Or(value, default) == IF value = 0 THEN default ELSE value

\* ascending sequence of a finite set of integers
RECURSIVE Ascending(_)
Ascending(S) ==
    IF S = {} THEN <<>>
    ELSE LET m == CHOOSE x \in S : \A y \in S : x <= y
         IN <<m>> \o Ascending(S \ {m})

\* the query with an inclusive lower bound: WHERE grid >= :grid
QueryInclusive(tbl, grid, limit) ==
    LET keys == Ascending({k \in DOMAIN tbl : k >= grid})
    IN SubSeq(keys, 1, IF limit < Len(keys) THEN limit ELSE Len(keys))

\* SELECT grid, num FROM table WHERE grid > :grid ORDER BY grid LIMIT :limit
\* the grid keys of the rows fetched
Query(tbl, grid, limit) ==
    LET keys == Ascending({k \in DOMAIN tbl : k > grid})
    IN SubSeq(keys, 1, IF limit < Len(keys) THEN limit ELSE Len(keys))

\* for row in rows: extend(random_points(lat, lon, row.num)); a line
\* carries its point, and the row and position it stems from
RECURSIVE Lines(_, _)
Lines(rows, tbl) ==
    IF rows = <<>> THEN <<>>
    ELSE [i \in 1..Len(tbl[Head(rows)]) |->
            [grid |-> Head(rows), n |-> i, point |-> tbl[Head(rows)][i]]]
         \o Lines(Tail(rows), tbl)

\* directory without the file name
Unlink(dir, name) == [n \in DOMAIN dir \ {name} |-> dir[n]]
\* os.rename(src, dst)
Rename(dir, src, dst) == (dst :> dir[src]) @@ Unlink(dir, src)

\* export_to_csv up to its loop: the defaults, the first file opened
ExportBegin(filename, dir, tablename, row_limit, file_limit) ==
    [frame |-> [xpc |-> "loop",
                tablename |-> tablename,
                min_grid |-> 0,
                row_limit |-> Or(row_limit, DefaultRowLimit),
                file_limit |-> Or(file_limit, DefaultFileLimit),
                result_rows |-> 0,
                file_path |-> filename,
                file_count |-> 1,
                file_rows |-> 0,
                orig_file_path |-> filename,
                fetched |-> <<>>],
     dir |-> (filename :> <<>>) @@ dir]

\* one pass of the while loop for a page of rows: write the lines, rotate
\* the file when result_rows has reached file_limit, advance min_grid
ExportBody(st, rows, tbl) ==
    LET f == st.frame
        lines == Lines(rows, tbl)
        written == [st.dir EXCEPT ![f.file_path] = @ \o lines]
        result_rows == f.result_rows + Len(lines)
        rotate == result_rows >= f.file_limit
        file_count == IF rotate THEN f.file_count + 1 ELSE f.file_count
        file_path == IF rotate THEN SubName(f.orig_file_path, file_count)
                     ELSE f.file_path
    IN [frame |-> [f EXCEPT !.result_rows = result_rows,
                            !.file_rows = IF rotate THEN 0 ELSE @ + Len(lines),
                            !.file_count = file_count,
                            !.file_path = file_path,
                            !.min_grid = rows[Len(rows)],
                            !.fetched = Append(@, rows)],
        dir |-> IF rotate THEN (file_path :> <<>>) @@ written ELSE written]

\* the end of export_to_csv renaming the first file whenever the file rotated
ExportEndRenameRotated(st) ==
    LET f == st.frame
        removed == IF f.file_rows = 0 THEN Unlink(st.dir, f.file_path) ELSE st.dir
        file_count == IF f.file_rows = 0 THEN f.file_count - 1 ELSE f.file_count
    IN [frame |-> [f EXCEPT !.xpc = "returned", !.file_count = file_count],
        dir |-> IF f.file_count > 1
                THEN Rename(removed, f.orig_file_path, SubName(f.orig_file_path, 1))
                ELSE removed]

\* the end of export_to_csv, after the loop: remove the last file when it
\* has no rows, rename the first file when more than one is left
ExportEnd(st) ==
    LET f == st.frame
        removed == IF f.file_rows = 0 THEN Unlink(st.dir, f.file_path) ELSE st.dir
        file_count == IF f.file_rows = 0 THEN f.file_count - 1 ELSE f.file_count
    IN [frame |-> [f EXCEPT !.xpc = "returned", !.file_count = file_count],
        dir |-> IF file_count > 1
                THEN Rename(removed, f.orig_file_path, SubName(f.orig_file_path, 1))
                ELSE removed]

\* the while loop of export_to_csv, run until a query returns no rows
RECURSIVE ExportLoop(_, _)
ExportLoop(st, tbl) ==
    LET rows == Query(tbl, st.frame.min_grid, st.frame.row_limit)
    IN IF rows = <<>> THEN st
       ELSE ExportLoop(ExportBody(st, rows, tbl), tbl)

\* export_to_csv(filename, csv_dir, tablename, row_limit, file_limit) run to
\* its return: the frame at the return (result_rows, file_count) and the
\* directory it leaves
export_to_csv(filename, dir, tbl, tablename, row_limit, file_limit) ==
    ExportEnd(ExportLoop(ExportBegin(filename, dir, tablename,
                                     row_limit, file_limit), tbl))

(***************************************************************************)
(* State.                                                                  *)
(***************************************************************************)
VARIABLES
    \* watch_jobs and the pool it watches
    jobs,           \* the job list: one record per apply_async handle
    status,         \* per job: "pending", "ok" or "fail" (AsyncResult)
    finished,       \* history: stand-alone jobs in the order the pool completed them
    cfg,            \* on_success, on_error, on_progress, raven_client
    wpc,            \* "idle", "top", "get", "done", "raised"
    raised,         \* what left watch_jobs by an exception, or "none"
    jobs_complete,  \* local jobs_complete
    awaited,        \* indexes of the jobs whose get() was called
    clock,          \* last reading of timer.elapsed
    last_elapsed,   \* local last_elapsed
    calls,          \* every callback / collaborator invocation, in order
    \* the sync stage of generate
    local,          \* the tiles directory: relative path -> content
    remote,         \* the bucket: key -> [size, etag]
    pc,             \* position in generate's upload branch
    run,            \* number of the current sync run
    plan,           \* actions returned by get_sync_plan
    unchanged_count,
    result,         \* the counts the stage's on_success / on_error keep
    prev_ok,        \* TRUE when the previous run finished with no failure
    hashed,         \* local files get_sync_actions opened to compute their MD5
    \* the create phase of generate
    tables,         \* the data source: shard -> (grid -> points of its jitter)
    frame,          \* the locals of a running export_to_csv call
    csv_dir,        \* <output>/csv: file name -> lines
    quadtree_dir,   \* <output>/quadtrees: path -> points of the quadtree
    shapes_dir,     \* <output>/shapes: the points of the merged quadtree
    cmds,           \* the merge commands run so far
    dirs,           \* the directories that exist below <output>/tiles
    main            \* the arguments and the locals of main

watchVars == <<jobs, status, finished, cfg, wpc, raised, jobs_complete,
               awaited, clock, last_elapsed, calls>>
syncVars == <<local, remote, pc, run, plan, unchanged_count, result, prev_ok,
              hashed>>
genVars == <<tables, frame, csv_dir, quadtree_dir, shapes_dir, cmds, dirs,
            main>>
\* everything that is not watch_jobs' own state, except the callbacks' result
nonWatchVars == <<local, remote, pc, run, plan, unchanged_count, prev_ok,
                  hashed, genVars>>
vars == <<watchVars, syncVars, genVars>>

\* no export_to_csv call is running
NoFrame == [xpc |-> "idle"]
\* main is not running: generate is called with its defaults create=True and
\* upload=True
NoMain == [mpc |-> "idle", create |-> TRUE, upload |-> TRUE]
NoPlan == [upload |-> <<>>, update |-> <<>>, delete |-> <<>>]
ZeroResult == [tile_new |-> 0, tile_changed |-> 0, tile_deleted |-> 0,
               tile_failed |-> 0]

(***************************************************************************)
(* watch_jobs.                                                             *)
(***************************************************************************)
\* jobs_complete / total_jobs, kept as an exact fraction
Fraction(a, b) == [num |-> a, den |-> b]

\* on_progress called with one job more than were handled
ProgressArgsOffByOne(done, total_jobs) ==
    <<done + 1, Fraction(done + 1, total_jobs)>>

\* job_percent = jobs_complete / total_jobs; the arguments of on_progress
ProgressArgs(done, total_jobs) == <<done, Fraction(done, total_jobs)>>

\* values a reading of timer.elapsed can return, given the last reading
Readings(t) == {u \in t..MaxElapsed : (u - t) % ClockStep = 0}

\* delete_files returning one per request, whatever the number of keys
JobResultPerRequest(job) ==
    CASE job.kind = "upload" -> <<"tile_new", 1>>
      [] job.kind = "update" -> <<"tile_changed", 1>>
      [] job.kind = "delete" -> <<"tile_deleted", 1>>
      [] OTHER -> <<"done", 0>>

\* what job.get() returns for a job that succeeded
JobResult(job) ==
    CASE job.kind = "upload" -> <<"tile_new", 1>>
      [] job.kind = "update" -> <<"tile_changed", 1>>
      [] job.kind = "delete" -> <<"tile_deleted", Len(job.paths)>>
      [] job.kind = "export" ->
            LET f == export_to_csv(MapName(job.paths[1]), <<>>,
                                   tables[job.paths[1]], job.paths[1], 0, 0).frame
            IN <<f.result_rows, f.file_count>>
      [] OTHER -> <<"done", 0>>

Call(cb, job, arg) == [cb |-> cb, job |-> job, arg |-> arg]

\* the body of the on_success callback: sync_tiles.on_success adds the
\* count of the job to its result key, export_to_csvs.on_success adds the
\* rows and the files of the table, the other callbacks keep no state
OnSuccessBody(cb, res, job_resp) ==
    CASE cb = "sync_tiles.on_success" ->
            [res EXCEPT ![job_resp[1]] = @ + job_resp[2]]
      [] cb = "export_to_csvs.on_success" ->
            [result_rows |-> res.result_rows + job_resp[1],
             result_csvs |-> res.result_csvs + job_resp[2]]
      [] OTHER -> res

\* an on_error callback that counts nothing
OnErrorBodyNoCount(cb, res) == res

\* the body of the on_error callback
OnErrorBody(cb, res) ==
    IF cb = "sync_tiles.on_error"
    THEN [res EXCEPT !.tile_failed = @ + 1]
    ELSE res

\* a total that counts one per delete request
SyncTotalPerRequest(p) ==
    Len(p.upload) + Len(p.update) + Len(chunked(p.delete, delete_batch_size))

\* the local total of sync_tiles: len(plan["upload"]) + len(plan["update"]),
\* plus len(paths) for every batch of chunked(plan["delete"])
RECURSIVE SyncTotal(_)
SyncTotal(p) ==
    IF p.delete = <<>> THEN Len(p.upload) + Len(p.update)
    ELSE LET batches == chunked(p.delete, delete_batch_size)
         IN Len(batches[1])
            + SyncTotal([p EXCEPT !.delete =
                            SubSeq(p.delete, Len(batches[1]) + 1, Len(p.delete))])

\* the body of the on_progress callback: sync_tiles.on_progress logs
\* count = sum(result.values()) and percent = count / total, and raises
\* ZeroDivisionError for a total of 0; the other callbacks only log their
\* arguments
OnProgressBody(cb, res, p) ==
    IF cb = "sync_tiles.on_progress"
    THEN LET count == res.tile_new + res.tile_changed + res.tile_deleted
                      + res.tile_failed
             total == SyncTotal(p)
         IN IF total = 0
            THEN [raises |-> TRUE, log |-> <<>>]
            ELSE [raises |-> FALSE,
                  log |-> <<Call("LOG.debug", 0,
                                 <<count, Fraction(count, total)>>)>>]
    ELSE [raises |-> FALSE, log |-> <<>>]

\* timer.elapsed > (last_elapsed + progress_seconds)
ProgressDue(now, last) == now > last + progress_seconds

\* the loop taking the jobs from the end of the list
CurrentJobReversed == Len(jobs) - jobs_complete

\* the job the for loop is at
CurrentJob == jobs_complete + 1

\* for job in jobs: the list is exhausted, the with block ends
WatchLoopExit ==
    /\ wpc = "top"
    /\ jobs_complete = Len(jobs)
    /\ wpc' = "done"
    /\ UNCHANGED <<jobs, status, finished, cfg, raised, jobs_complete,
                   awaited, clock, last_elapsed, calls, result>>
    /\ UNCHANGED nonWatchVars

\* the progress interval has not elapsed: go on to job.get()
WatchNoProgress ==
    /\ wpc = "top"
    /\ jobs_complete < Len(jobs)
    /\ \E now \in Readings(clock) :
        /\ ~ProgressDue(now, last_elapsed)
        /\ clock' = now
    /\ wpc' = "get"
    /\ awaited' = awaited \cup {CurrentJob}
    /\ UNCHANGED <<jobs, status, finished, cfg, raised, jobs_complete,
                   last_elapsed, calls, result>>
    /\ UNCHANGED nonWatchVars

\* the progress interval has elapsed: on_progress(jobs_complete, job_percent)
WatchProgress ==
    /\ wpc = "top"
    /\ jobs_complete < Len(jobs)
    /\ cfg.on_progress # "None"
    /\ \E now \in Readings(clock) :
        /\ ProgressDue(now, last_elapsed)
        /\ \E again \in Readings(now) :
            /\ last_elapsed' = again
            /\ clock' = again
    /\ LET body == OnProgressBody(cfg.on_progress, result, plan)
       IN /\ calls' = Append(calls, Call("on_progress", 0,
                                         ProgressArgs(jobs_complete, Len(jobs))))
                      \o body.log
          /\ wpc' = IF body.raises THEN "raised" ELSE "get"
          /\ raised' = IF body.raises THEN "ZeroDivisionError" ELSE raised
          /\ awaited' = IF body.raises THEN awaited
                        ELSE awaited \cup {CurrentJob}
    /\ UNCHANGED <<jobs, status, finished, cfg, jobs_complete, result>>
    /\ UNCHANGED nonWatchVars

\* the progress interval has elapsed and on_progress is None: calling None
\* raises TypeError outside the try block
WatchProgressNone ==
    /\ wpc = "top"
    /\ jobs_complete < Len(jobs)
    /\ cfg.on_progress = "None"
    /\ \E now \in Readings(clock) :
        /\ ProgressDue(now, last_elapsed)
        /\ clock' = now
    /\ wpc' = "raised"
    /\ raised' = "TypeError"
    /\ UNCHANGED <<jobs, status, finished, cfg, jobs_complete, awaited,
                   last_elapsed, calls, result>>
    /\ UNCHANGED nonWatchVars

\* the except clause never re-raising
HandleExceptionSwallow(sofar, e) ==
    /\ calls' = sofar
    /\ result' = result
    /\ jobs_complete' = jobs_complete + 1
    /\ wpc' = "top"
    /\ raised' = raised

\* the except clause re-raising whether or not on_error is given
HandleExceptionReraise(sofar, e) ==
    /\ calls' = sofar \o <<Call("on_error", jobs_complete + 1, e)>>
    /\ result' = result
    /\ jobs_complete' = jobs_complete
    /\ wpc' = "raised"
    /\ raised' = e[1]

\* except Exception as e: raven_client.captureException(), then on_error(e)
\* or, without on_error, raise; sofar is the call log when e was raised
HandleException(sofar, e) ==
    LET captured == IF cfg.raven_client
                    THEN <<Call("captureException", CurrentJob, e)>>
                    ELSE <<>>
    IN IF cfg.on_error # "None"
       THEN /\ calls' = sofar \o captured \o
                        <<Call("on_error", CurrentJob, e)>>
            /\ result' = OnErrorBody(cfg.on_error, result)
            /\ jobs_complete' = jobs_complete + 1
            /\ wpc' = "top"
            /\ raised' = raised
       ELSE /\ calls' = sofar \o captured
            /\ result' = result
            /\ jobs_complete' = jobs_complete
            /\ wpc' = "raised"
            /\ raised' = e[1]

\* job.get() returns and on_success is None
GetSuccessNoCallback ==
    /\ wpc = "get"
    /\ status[CurrentJob] = "ok"
    /\ cfg.on_success = "None"
    /\ jobs_complete' = jobs_complete + 1
    /\ wpc' = "top"
    /\ UNCHANGED <<jobs, status, finished, cfg, raised, awaited, clock,
                   last_elapsed, calls, result>>
    /\ UNCHANGED nonWatchVars

\* job.get() returns and on_success(job_resp) returns
GetSuccess ==
    /\ wpc = "get"
    /\ status[CurrentJob] = "ok"
    /\ cfg.on_success # "None"
    /\ calls' = Append(calls, Call("on_success", CurrentJob,
                                   JobResult(jobs[CurrentJob])))
    /\ result' = OnSuccessBody(cfg.on_success, result,
                               JobResult(jobs[CurrentJob]))
    /\ jobs_complete' = jobs_complete + 1
    /\ wpc' = "top"
    /\ UNCHANGED <<jobs, status, finished, cfg, raised, awaited, clock,
                   last_elapsed>>
    /\ UNCHANGED nonWatchVars

\* job.get() returns and on_success(job_resp) raises: the call sits inside
\* the try block, so the except clause handles the callback's exception
GetSuccessCallbackRaises ==
    /\ wpc = "get"
    /\ status[CurrentJob] = "ok"
    /\ cfg.on_success = "faulty"
    /\ HandleException(Append(calls, Call("on_success", CurrentJob,
                                          JobResult(jobs[CurrentJob]))),
                       <<"CallbackError", CurrentJob>>)
    /\ UNCHANGED <<jobs, status, finished, cfg, awaited, clock, last_elapsed>>
    /\ UNCHANGED nonWatchVars

\* job.get() raises the job's exception
GetFailure ==
    /\ wpc = "get"
    /\ status[CurrentJob] = "fail"
    /\ HandleException(calls, <<"JobError", CurrentJob>>)
    /\ UNCHANGED <<jobs, status, finished, cfg, awaited, clock, last_elapsed>>
    /\ UNCHANGED nonWatchVars

\* KeyboardInterrupt caught by the except Exception clause
InterruptAsException ==
    /\ wpc = "get"
    /\ HandleException(calls, <<"KeyboardInterrupt", CurrentJob>>)
    /\ UNCHANGED <<jobs, status, finished, cfg, awaited, clock, last_elapsed>>
    /\ UNCHANGED nonWatchVars

\* KeyboardInterrupt while blocked in job.get(): except KeyboardInterrupt: raise
Interrupt ==
    /\ wpc = "get"
    /\ wpc' = "raised"
    /\ raised' = "KeyboardInterrupt"
    /\ UNCHANGED <<jobs, status, finished, cfg, jobs_complete, awaited,
                   clock, last_elapsed, calls, result>>
    /\ UNCHANGED nonWatchVars

\* a pool worker finishes a job of the stand-alone runs, with either outcome
TaskComplete ==
    \E j \in 1..Len(jobs) :
        /\ jobs[j].kind = "task"
        /\ status[j] = "pending"
        /\ \E outcome \in {"ok", "fail"} :
            status' = [status EXCEPT ![j] = outcome]
        /\ finished' = Append(finished, j)
        /\ UNCHANGED <<jobs, cfg, wpc, raised, jobs_complete, awaited,
                       clock, last_elapsed, calls, result>>
        /\ UNCHANGED nonWatchVars

(***************************************************************************)
(* The sync stage: generate(upload=True).                                  *)
(***************************************************************************)
\* send_file leaving an ETag that is no MD5 of the content
UploadedOtherETag(c) == [size |-> SizeOf(c), etag |-> "multipart"]

\* the object send_file leaves in the bucket for a local file
Uploaded(c) == [size |-> SizeOf(c), etag |-> MD5(c)]
\* the object upload_status_file leaves in the bucket
StatusObject == [size |-> 3, etag |-> "hs"]

\* store with key k set to object o
Put(store, k, o) == (k :> o) @@ store
\* store without the keys ks
Remove(store, ks) == [k \in DOMAIN store \ ks |-> store[k]]

\* the jobs sync_tiles queues for a plan, in dispatch order
SyncJobs(p) ==
    [i \in 1..Len(p.upload) |-> [kind |-> "upload", paths |-> <<p.upload[i]>>]]
    \o [i \in 1..Len(p.update) |-> [kind |-> "update", paths |-> <<p.update[i]>>]]
    \o LET batches == chunked(p.delete, delete_batch_size)
       IN [i \in 1..Len(batches) |-> [kind |-> "delete", paths |-> batches[i]]]

\* plan, unchanged_count = get_sync_plan(bucket_name, tiles_dir)
GetSyncPlan ==
    /\ pc = "start"
    /\ get_current_objects(remote, bucket_prefix).xpc = "returned"
    /\ \E entries \in Orderings(get_png_entries(local)) :
        LET objects == get_current_objects(remote, bucket_prefix).objects
            actions == get_sync_actions(entries, objects, local)
        IN /\ plan' = actions[1]
           /\ unchanged_count' = actions[2]
           /\ hashed' = actions[3]
    /\ pc' = "planned"
    /\ UNCHANGED <<watchVars, local, remote, run, result, prev_ok, genVars>>

\* get_current_objects raises: the exception leaves get_sync_plan and
\* generate before any job is queued
GetSyncPlanRaises ==
    /\ pc = "start"
    /\ get_current_objects(remote, bucket_prefix).xpc = "KeyError"
    /\ pc' = "aborted"
    /\ UNCHANGED <<watchVars, local, remote, run, plan, unchanged_count,
                   result, prev_ok, hashed, genVars>>

\* sync_tiles up to its call of watch_jobs: queue the jobs, enter the loop
SyncTiles ==
    /\ pc = "planned"
    /\ jobs' = SyncJobs(plan)
    /\ status' = [j \in 1..Len(SyncJobs(plan)) |-> "pending"]
    /\ finished' = <<>>
    /\ cfg' = [on_success |-> "sync_tiles.on_success",
               on_error |-> "sync_tiles.on_error",
               on_progress |-> "sync_tiles.on_progress",
               raven_client |-> FALSE]
    /\ result' = ZeroResult
    /\ wpc' = "top"
    /\ raised' = "none"
    /\ jobs_complete' = 0
    /\ awaited' = {}
    /\ clock' = 0
    /\ last_elapsed' = 0
    /\ calls' = <<>>
    /\ pc' = "syncing"
    /\ UNCHANGED <<local, remote, run, plan, unchanged_count, prev_ok, hashed,
                   genVars>>

\* a pool worker runs upload_file / update_file / delete_files to success
SyncJobSucceeds ==
    \E j \in 1..Len(jobs) :
        /\ pc = "syncing"
        /\ jobs[j].kind \in {"upload", "update", "delete"}
        /\ status[j] = "pending"
        /\ remote' =
            IF jobs[j].kind = "delete"
            THEN Remove(remote, {Key(bucket_prefix, n) : n \in Range(jobs[j].paths)})
            ELSE Put(remote, Key(bucket_prefix, jobs[j].paths[1]),
                     Uploaded(local[jobs[j].paths[1]]))
        /\ status' = [status EXCEPT ![j] = "ok"]
        /\ UNCHANGED <<jobs, finished, cfg, wpc, raised, jobs_complete, awaited,
                       clock, last_elapsed, calls, result>>
        /\ UNCHANGED <<local, pc, run, plan, unchanged_count, prev_ok, hashed,
                       genVars>>

\* a pool worker's job raises: the transfer fails, or delete_objects reports
\* Errors for some keys of the batch (the other keys are deleted)
SyncJobFails ==
    \E j \in 1..Len(jobs) :
        /\ pc = "syncing"
        /\ jobs[j].kind \in {"upload", "update", "delete"}
        /\ status[j] = "pending"
        /\ \E errors \in SUBSET Range(jobs[j].paths) :
            /\ errors # {}
            /\ remote' =
                IF jobs[j].kind = "delete"
                THEN Remove(remote, {Key(bucket_prefix, n) :
                                        n \in Range(jobs[j].paths) \ errors})
                ELSE remote
        /\ status' = [status EXCEPT ![j] = "fail"]
        /\ UNCHANGED <<jobs, finished, cfg, wpc, raised, jobs_complete, awaited,
                       clock, last_elapsed, calls, result>>
        /\ UNCHANGED <<local, pc, run, plan, unchanged_count, prev_ok, hashed,
                       genVars>>

\* watch_jobs returned: sync_tiles returns its result and generate calls
\* upload_status_file
UploadStatusFile ==
    /\ pc = "syncing"
    /\ wpc = "done"
    /\ remote' = Put(remote, Key(bucket_prefix, StatusName), StatusObject)
    /\ prev_ok' = (\A j \in 1..Len(jobs) : status[j] = "ok")
    /\ pc' = "done"
    /\ UNCHANGED <<watchVars, local, run, plan, unchanged_count, result,
                   hashed, genVars>>

\* watch_jobs raised: the exception leaves sync_tiles and generate, and the
\* with block terminates the pool
SyncAbort ==
    /\ pc = "syncing"
    /\ wpc = "raised"
    /\ pc' = "aborted"
    /\ UNCHANGED <<watchVars, local, remote, run, plan, unchanged_count,
                   result, prev_ok, hashed, genVars>>

\* the next run of generate(upload=True) on the same directory and bucket
Rerun ==
    /\ pc = "done"
    /\ run < MaxRuns
    /\ run' = run + 1
    /\ pc' = "start"
    /\ UNCHANGED <<watchVars, local, remote, plan, unchanged_count, result,
                   prev_ok, hashed, genVars>>

(***************************************************************************)
(* Specifications.                                                         *)
(***************************************************************************)
\* objects an earlier run or another writer may have left in the bucket
RemoteObjects == {[size |-> 1, etag |-> "h1"], [size |-> 2, etag |-> "h1"]}

Stores(keys) == UNION {[d -> RemoteObjects] : d \in SUBSET keys}
Trees(names) == UNION {[d -> Contents] : d \in SUBSET names}

\* tiles the render stage of the modelled runs may have written; the third
\* name of PngNames is a tile only earlier runs rendered
RenderedNames == {"0/0/0.png", "0/0/0@2x.png"}

\* the sync stage, from any tiles directory and any bucket contents
SyncInit ==
    /\ local \in {t @@ (LocalOther :> "c1") : t \in Trees(RenderedNames)}
    /\ remote \in {s @@ (OtherKey :> [size |-> 1, etag |-> "h1"]) :
                     s \in Stores({Key(bucket_prefix, n) :
                                     n \in PngNames \cup {StatusName}})}
    /\ pc = "start"
    /\ run = 1
    /\ plan = NoPlan
    /\ unchanged_count = 0
    /\ result = ZeroResult
    /\ prev_ok = FALSE
    /\ hashed = {}
    /\ tables = <<>>
    /\ frame = NoFrame
    /\ csv_dir = <<>>
    /\ quadtree_dir = <<>>
    /\ shapes_dir = <<>>
    /\ cmds = <<>>
    /\ dirs = {}
    /\ main = NoMain
    /\ jobs = <<>>
    /\ status = <<>>
    /\ finished = <<>>
    /\ cfg = [on_success |-> "None", on_error |-> "None",
              on_progress |-> "None", raven_client |-> FALSE]
    /\ wpc = "idle"
    /\ raised = "none"
    /\ jobs_complete = 0
    /\ awaited = {}
    /\ clock = 0
    /\ last_elapsed = 0
    /\ calls = <<>>

SyncNext ==
    \/ GetSyncPlan
    \/ GetSyncPlanRaises
    \/ SyncTiles
    \/ SyncJobSucceeds
    \/ SyncJobFails
    \/ WatchLoopExit
    \/ WatchNoProgress
    \/ WatchProgress
    \/ GetSuccess
    \/ GetFailure
    \/ Interrupt
    \/ UploadStatusFile
    \/ SyncAbort
    \/ Rerun

SyncSpec == SyncInit /\ [][SyncNext]_vars

\* watch_jobs on its own: any job list, any subset of the callbacks
WatchInit ==
    /\ \E n \in 0..MaxJobs :
        /\ jobs = [j \in 1..n |-> [kind |-> "task", paths |-> <<>>]]
        /\ status = [j \in 1..n |-> "pending"]
    /\ finished = <<>>
    /\ cfg \in [on_success : {"None", "stub", "faulty"},
                on_error : {"None", "stub"},
                on_progress : {"None", "stub"},
                raven_client : BOOLEAN]
    /\ wpc = "top"
    /\ raised = "none"
    /\ jobs_complete = 0
    /\ awaited = {}
    /\ clock = 0
    /\ last_elapsed = 0
    /\ calls = <<>>
    /\ local = <<>>
    /\ remote = <<>>
    /\ pc = "watch"
    /\ run = 0
    /\ plan = NoPlan
    /\ unchanged_count = 0
    /\ result = ZeroResult
    /\ prev_ok = FALSE
    /\ hashed = {}
    /\ tables = <<>>
    /\ frame = NoFrame
    /\ csv_dir = <<>>
    /\ quadtree_dir = <<>>
    /\ shapes_dir = <<>>
    /\ cmds = <<>>
    /\ dirs = {}
    /\ main = NoMain

WatchNext ==
    \/ TaskComplete
    \/ WatchLoopExit
    \/ WatchNoProgress
    \/ WatchProgress
    \/ WatchProgressNone
    \/ GetSuccessNoCallback
    \/ GetSuccess
    \/ GetSuccessCallbackRaises
    \/ GetFailure
    \/ Interrupt

WatchSpec == WatchInit /\ [][WatchNext]_vars

\* get_sync_plan alone, on any tiles directory and any bucket contents
DiffInit ==
    /\ local \in Trees(PngNames \cup {LocalOther})
    /\ remote \in Stores({Key(bucket_prefix, n) : n \in PngNames \cup {StatusName}}
                         \cup {OtherKey})
    /\ pc = "start"
    /\ run = 1
    /\ plan = NoPlan
    /\ unchanged_count = 0
    /\ result = ZeroResult
    /\ prev_ok = FALSE
    /\ hashed = {}
    /\ tables = <<>>
    /\ frame = NoFrame
    /\ csv_dir = <<>>
    /\ quadtree_dir = <<>>
    /\ shapes_dir = <<>>
    /\ cmds = <<>>
    /\ dirs = {}
    /\ main = NoMain
    /\ jobs = <<>>
    /\ status = <<>>
    /\ finished = <<>>
    /\ cfg = [on_success |-> "None", on_error |-> "None",
              on_progress |-> "None", raven_client |-> FALSE]
    /\ wpc = "idle"
    /\ raised = "none"
    /\ jobs_complete = 0
    /\ awaited = {}
    /\ clock = 0
    /\ last_elapsed = 0
    /\ calls = <<>>

DiffNext ==
    \/ GetSyncPlan
    \/ GetSyncPlanRaises

DiffSpec == DiffInit /\ [][DiffNext]_vars

\* one iteration of the while loop of get_current_objects
GetCurrentObjectsPage ==
    /\ pc = "get_current_objects"
    /\ frame.xpc = "list"
    /\ frame.more_to_fetch
    /\ frame' = ListStep(frame, remote, bucket_prefix)
    /\ UNCHANGED <<watchVars, syncVars, tables, csv_dir, quadtree_dir,
                   shapes_dir, cmds, dirs, main>>

\* while more_to_fetch: the condition is false, return objects
GetCurrentObjectsReturn ==
    /\ pc = "get_current_objects"
    /\ frame.xpc = "list"
    /\ ~frame.more_to_fetch
    /\ frame' = [frame EXCEPT !.xpc = "returned"]
    /\ UNCHANGED <<watchVars, syncVars, tables, csv_dir, quadtree_dir,
                   shapes_dir, cmds, dirs, main>>

\* get_current_objects alone, on any bucket contents
ListInit ==
    /\ remote \in Stores({Key(bucket_prefix, n) : n \in PngNames \cup {StatusName}}
                         \cup {OtherKey})
    /\ frame = ListBegin
    /\ pc = "get_current_objects"
    /\ local = <<>>
    /\ run = 1
    /\ plan = NoPlan
    /\ unchanged_count = 0
    /\ result = ZeroResult
    /\ prev_ok = FALSE
    /\ hashed = {}
    /\ tables = <<>>
    /\ csv_dir = <<>>
    /\ quadtree_dir = <<>>
    /\ shapes_dir = <<>>
    /\ cmds = <<>>
    /\ dirs = {}
    /\ main = NoMain
    /\ jobs = <<>>
    /\ status = <<>>
    /\ finished = <<>>
    /\ cfg = [on_success |-> "None", on_error |-> "None",
              on_progress |-> "None", raven_client |-> FALSE]
    /\ wpc = "idle"
    /\ raised = "none"
    /\ jobs_complete = 0
    /\ awaited = {}
    /\ clock = 0
    /\ last_elapsed = 0
    /\ calls = <<>>

ListNext ==
    \/ GetCurrentObjectsPage
    \/ GetCurrentObjectsReturn

ListSpec == ListInit /\ [][ListNext]_vars

(***************************************************************************)
(* The create phase of generate: export, encode, merge, render.            *)
(***************************************************************************)
\* sorted(DataMap.shards().items()): the shard ids, two of them here
Shards == <<"ne", "sw">>

\* a quadtree holds points with their multiplicity
EmptyQuadtree == [p \in Points |-> 0]
\* encode: the quadtree of the lines of a CSV file
Encode(lines) ==
    [p \in Points |-> Cardinality({i \in 1..Len(lines) : lines[i].point = p})]
RECURSIVE SumQuadtrees(_, _)
SumQuadtrees(dir, files) ==
    IF files = {} THEN EmptyQuadtree
    ELSE LET f == CHOOSE x \in files : TRUE
             rest == SumQuadtrees(dir, files \ {f})
         IN [p \in Points |-> dir[f][p] + rest[p]]
\* merge [-u] -o out files: every point of the inputs, once with -u and as
\* often as the inputs hold it without
Merge(dir, files, u) ==
    LET all == SumQuadtrees(dir, files)
    IN IF u THEN [p \in Points |-> IF all[p] > 0 THEN 1 ELSE 0] ELSE all

\* glob(quadtree_dir/map*) and glob(quadtree_dir/submap_<shard>/submap*)
GlobMap(dir) == {f \in DOMAIN dir : f[1] = "map"}
GlobSubmap(dir, shard) == {f \in DOMAIN dir : f[1] = "submap" /\ f[2] = shard}

\* the keywords of the shard-level merge left at merge_quadtrees' defaults
ShardMergeDefaults == [remove_duplicates |-> TRUE, pattern |-> "submap*"]
\* {"remove_duplicates": False, "pattern": "submap*"}
ShardMergeKeywords == [remove_duplicates |-> FALSE, pattern |-> "submap*"]

\* the record of one run of the merge tool
MergeCmd(u, out, files) == [cmd |-> "merge", u |-> u, out |-> out, inputs |-> files]

\* the tile of a zoom level a point lies in, as (zoom, x, y); the points of
\* the model all lie in one tile of zoom level 1
TileOf(p, zoom) ==
    IF zoom = 0 THEN <<"0", "0", "0">> ELSE <<"1", "1", "0">>
\* os.path.join(zoom, tile_x, f"{tile_y}{suffix}.png"), relative to tiles_dir
TilePath(tile, suffix) ==
    CASE tile = <<"0", "0", "0">> /\ suffix = "" -> "0/0/0.png"
      [] tile = <<"0", "0", "0">> /\ suffix = "@2x" -> "0/0/0@2x.png"
      [] OTHER -> "1/1/0.png"
\* enumerate -z zoom shapes_dir: the tiles of the levels 0..zoom that hold a
\* point, in the order of their paths
enumerate_tiles(shapes, zoom) ==
    LET tiles == {TileOf(p, z) : p \in {x \in Points : shapes[x] > 0},
                                 z \in 0..zoom}
        paths == Sorted({TilePath(t, "") : t \in tiles})
    IN [i \in 1..Len(paths) |->
            CHOOSE t \in tiles : TilePath(t, "") = paths[i]]

\* watch_jobs(jobs, on_success, on_error, on_progress) is entered
EnterWatchJobs(job_list, callbacks) ==
    /\ jobs' = job_list
    /\ status' = [j \in 1..Len(job_list) |-> "pending"]
    /\ finished' = <<>>
    /\ cfg' = callbacks
    /\ wpc' = "top"
    /\ raised' = "none"
    /\ jobs_complete' = 0
    /\ awaited' = {}
    /\ clock' = 0
    /\ last_elapsed' = 0
    /\ calls' = <<>>

\* the stages that pass on_progress only
OnProgressOnly(name) ==
    [on_success |-> "None", on_error |-> "None", on_progress |-> name,
     raven_client |-> FALSE]

\* generate(create=True) up to export_to_csvs' call of watch_jobs: one
\* export job per shard
ExportToCsvs ==
    /\ pc = "create"
    /\ EnterWatchJobs([i \in 1..Len(Shards) |->
                         [kind |-> "export", paths |-> <<Shards[i]>>]],
                      [on_success |-> "export_to_csvs.on_success",
                       on_error |-> "None",
                       on_progress |-> "export_to_csvs.on_progress",
                       raven_client |-> FALSE])
    /\ result' = [result_rows |-> 0, result_csvs |-> 0]
    /\ pc' = "export"
    /\ UNCHANGED <<local, remote, run, plan, unchanged_count, prev_ok, hashed,
                   genVars>>

\* a pool worker runs export_to_csv(filename, csv_dir, tablename) to its return
ExportJob ==
    \E j \in 1..Len(jobs) :
        /\ pc = "export"
        /\ jobs[j].kind = "export"
        /\ status[j] = "pending"
        /\ LET shard == jobs[j].paths[1]
           IN csv_dir' = export_to_csv(MapName(shard), csv_dir, tables[shard],
                                       shard, 0, 0).dir
        /\ status' = [status EXCEPT ![j] = "ok"]
        /\ UNCHANGED <<jobs, finished, cfg, wpc, raised, jobs_complete, awaited,
                       clock, last_elapsed, calls, result>>
        /\ UNCHANGED <<syncVars, tables, frame, quadtree_dir, shapes_dir, cmds,
                       dirs, main>>

\* a pool worker's export, encode or merge job raises: the database or the
\* external tool fails
CreateJobFails ==
    \E j \in 1..Len(jobs) :
        /\ pc \in {"export", "encode", "merge"}
        /\ jobs[j].kind \in {"export", "encode", "merge"}
        /\ status[j] = "pending"
        /\ status' = [status EXCEPT ![j] = "fail"]
        /\ UNCHANGED <<jobs, finished, cfg, wpc, raised, jobs_complete, awaited,
                       clock, last_elapsed, calls, result>>
        /\ UNCHANGED nonWatchVars

\* export_to_csvs returned no rows: generate returns its result
GenerateNoRows ==
    /\ pc = "export"
    /\ wpc = "done"
    /\ result.result_rows = 0
    /\ pc' = "returned"
    /\ UNCHANGED <<watchVars, local, remote, run, plan, unchanged_count,
                   result, prev_ok, hashed, genVars>>

\* os.path.join(quadtree_dir, f"submap_{shard}")
SubmapDir(shard) == <<"submap", shard>>
\* the quadtree directory itself
QuadtreeTop == <<"quadtrees">>

\* os.path.join(dir, name.split(".")[0]): a map_<shard> at the top of the
\* quadtree directory and a submap_<shard>_<n> in the folder of its shard
\* are the paths the globs of merge_quadtrees look at
OutputPath(dir, name) ==
    IF (name[1] = "map" /\ dir = QuadtreeTop)
        \/ (name[1] = "submap" /\ dir = SubmapDir(name[2]))
    THEN name
    ELSE dir \o name

\* the encode job csv_to_quadtrees queues for a file of the CSV directory:
\* csv_to_quadtree(name, csvdir, quadtree_dir) for a map_ file and
\* csv_to_quadtree(name, csvdir, submap_dir) for a submap_ file
EncodeJobFor(name) ==
    [kind |-> "encode", paths |-> <<name>>,
     dir |-> IF name[1] = "map" THEN QuadtreeTop ELSE SubmapDir(name[2])]

\* export_to_csvs returned rows: the quadtree directory is made anew and
\* csv_to_quadtrees queues one encode job per CSV file, in the order of
\* os.listdir, up to its first call of watch_jobs
CsvToQuadtrees ==
    /\ pc = "export"
    /\ wpc = "done"
    /\ result.result_rows # 0
    /\ quadtree_dir' = <<>>
    /\ \E names \in Orderings(DOMAIN csv_dir) :
        EnterWatchJobs([i \in 1..Len(names) |-> EncodeJobFor(names[i])],
                       OnProgressOnly("csv_to_quadtrees.on_progress"))
    /\ result' = [intermediate_count |->
                    Cardinality({n \in DOMAIN csv_dir : n[1] = "submap"}),
                  final_count |->
                    Cardinality({n \in DOMAIN csv_dir : n[1] = "map"})]
    /\ pc' = "encode"
    /\ UNCHANGED <<local, remote, run, plan, unchanged_count, prev_ok,
                   hashed, tables, frame, csv_dir, shapes_dir, cmds, dirs,
                   main>>

\* a pool worker runs csv_to_quadtree(name, csvdir, quadtree_dir or
\* submap_dir): encode -o <dir>/<basename>
EncodeJob ==
    \E j \in 1..Len(jobs) :
        /\ pc = "encode"
        /\ jobs[j].kind = "encode"
        /\ status[j] = "pending"
        /\ LET name == jobs[j].paths[1]
               output_path == OutputPath(jobs[j].dir, name)
           IN quadtree_dir' = (output_path :> Encode(csv_dir[name]))
                              @@ quadtree_dir
        /\ status' = [status EXCEPT ![j] = "ok"]
        /\ UNCHANGED <<jobs, finished, cfg, wpc, raised, jobs_complete, awaited,
                       clock, last_elapsed, calls, result>>
        /\ UNCHANGED <<syncVars, tables, frame, csv_dir, shapes_dir, cmds,
                       dirs, main>>

\* one entry per submap file instead of one per shard
RECURSIVE IntermediatesPerFile(_, _)
IntermediatesPerFile(encode_jobs, seen) ==
    IF encode_jobs = <<>> THEN <<>>
    ELSE LET name == Head(encode_jobs).paths[1]
         IN IF name[1] = "submap"
            THEN <<name[2]>> \o IntermediatesPerFile(Tail(encode_jobs), seen)
            ELSE IntermediatesPerFile(Tail(encode_jobs), seen)

\* intermediates.items(): the shards with submap files, in the order in
\* which the listing met their first file
RECURSIVE Intermediates(_, _)
Intermediates(encode_jobs, seen) ==
    IF encode_jobs = <<>> THEN <<>>
    ELSE LET name == Head(encode_jobs).paths[1]
         IN IF name[1] = "submap" /\ name[2] \notin seen
            THEN <<name[2]>> \o Intermediates(Tail(encode_jobs), seen \cup {name[2]})
            ELSE Intermediates(Tail(encode_jobs), seen)

\* csv_to_quadtrees queueing the merge jobs while encode jobs are running
QueueMergeJobsNoWait ==
    /\ pc = "encode"
    /\ wpc \in {"top", "get", "done"}
    /\ LET shards == Intermediates(jobs, {})
       IN EnterWatchJobs([i \in 1..Len(shards) |->
                            [kind |-> "merge", paths |-> <<shards[i]>>]],
                         OnProgressOnly("csv_to_quadtrees.on_merge_progress"))
    /\ pc' = "merge"
    /\ UNCHANGED <<local, remote, run, plan, unchanged_count, result, prev_ok,
                   hashed, genVars>>

\* the first watch_jobs of csv_to_quadtrees returned: one merge job per
\* shard with intermediates, up to the second call of watch_jobs; result
\* holds the counts csv_to_quadtrees returns
QueueMergeJobs ==
    /\ pc = "encode"
    /\ wpc = "done"
    /\ LET shards == Intermediates(jobs, {})
       IN /\ EnterWatchJobs([i \in 1..Len(shards) |->
                            [kind |-> "merge", paths |-> <<shards[i]>>]],
                         OnProgressOnly("csv_to_quadtrees.on_merge_progress"))
          /\ result' = [csv_count |-> Len(jobs),
                        intermediate_count |-> result.intermediate_count,
                        final_count |-> result.final_count + Len(shards)]
    /\ pc' = "merge"
    /\ UNCHANGED <<local, remote, run, plan, unchanged_count, prev_ok,
                   hashed, genVars>>

\* a pool worker runs merge_quadtrees(submap_dir, map_dir,
\* remove_duplicates=False, pattern="submap*")
MergeJob ==
    \E j \in 1..Len(jobs) :
        /\ pc = "merge"
        /\ jobs[j].kind = "merge"
        /\ status[j] = "pending"
        /\ LET shard == jobs[j].paths[1]
               quadtree_files == GlobSubmap(quadtree_dir, shard)
               u == ShardMergeKeywords.remove_duplicates
           IN /\ quadtree_files # {}
              /\ quadtree_dir' = (MapName(shard) :>
                                    Merge(quadtree_dir, quadtree_files, u))
                                  @@ quadtree_dir
              /\ cmds' = Append(cmds, MergeCmd(u, MapName(shard), quadtree_files))
        /\ status' = [status EXCEPT ![j] = "ok"]
        /\ UNCHANGED <<jobs, finished, cfg, wpc, raised, jobs_complete, awaited,
                       clock, last_elapsed, calls, result>>
        /\ UNCHANGED <<syncVars, tables, frame, csv_dir, shapes_dir, dirs, main>>

\* os.path.join(tiles_dir, zoom, tile_x), relative to the output directory
TileFolder(tile) ==
    IF tile[1] = "0" THEN "tiles/0/0" ELSE "tiles/1/1"
\* the folder of a tile path
FolderOf(path) ==
    IF path \in {"0/0/0.png", "0/0/0@2x.png"} THEN "tiles/0/0" ELSE "tiles/1/1"

\* create_tile_subfolders that makes no directory
create_tile_subfoldersNone(tile_params, folders) == folders

\* create_tile_subfolders(tile_params, tiles_dir): os.makedirs(folder,
\* exist_ok=True) for the (zoom, tile_x) of every tile, which makes the
\* tiles directory as well
create_tile_subfolders(tile_params, folders) ==
    IF tile_params = <<>> THEN folders
    ELSE folders \cup {"tiles"}
            \cup {TileFolder(tile_params[i]) : i \in 1..Len(tile_params)}

\* the render jobs of one pass of render_tiles_for_zoom_levels
RenderJobs(shapes, zoom, suffix) ==
    LET tile_params == enumerate_tiles(shapes, zoom)
    IN [i \in 1..Len(tile_params) |->
            [kind |-> "render", paths |-> <<TilePath(tile_params[i], suffix)>>]]

\* csv_to_quadtrees returned: merge_quadtrees(quadtree_dir, shapes_dir) runs
\* merge -u over map*, then render_tiles queues the render jobs of the
\* zoom levels 0..max_zoom
MergeAndRender ==
    /\ pc = "merge"
    /\ wpc = "done"
    /\ LET quadtree_files == GlobMap(quadtree_dir)
           shapes == Merge(quadtree_dir, quadtree_files, TRUE)
       IN /\ quadtree_files # {}
          /\ shapes_dir' = shapes
          /\ cmds' = Append(cmds, MergeCmd(TRUE, <<"shapes">>, quadtree_files))
          /\ dirs' = create_tile_subfolders(enumerate_tiles(shapes, max_zoom),
                                            dirs)
          /\ EnterWatchJobs(RenderJobs(shapes, max_zoom, ""),
                            OnProgressOnly("render_tiles.on_progress"))
    /\ pc' = "render"
    /\ UNCHANGED <<local, remote, run, plan, unchanged_count, result, prev_ok,
                   hashed, tables, frame, csv_dir, quadtree_dir, main>>

\* the enumerate tool exits non-zero in enumerate_tiles, after the global
\* merge or before the second pass: CalledProcessError leaves
\* render_tiles_for_zoom_levels and generate before any job is queued
EnumerateFails ==
    /\ wpc = "done"
    /\ \/ /\ pc = "merge"
          /\ LET quadtree_files == GlobMap(quadtree_dir)
             IN /\ quadtree_files # {}
                /\ shapes_dir' = Merge(quadtree_dir, quadtree_files, TRUE)
                /\ cmds' = Append(cmds, MergeCmd(TRUE, <<"shapes">>,
                                                 quadtree_files))
       \/ /\ pc = "render"
          /\ UNCHANGED <<shapes_dir, cmds>>
    /\ pc' = "aborted"
    /\ UNCHANGED <<watchVars, local, remote, run, plan, unchanged_count,
                   result, prev_ok, hashed, tables, frame, csv_dir,
                   quadtree_dir, dirs, main>>

\* the merge tool exits non-zero in merge_quadtrees(quadtree_dir, shapes_dir):
\* CalledProcessError leaves generate
GlobalMergeFails ==
    /\ pc = "merge"
    /\ wpc = "done"
    /\ pc' = "aborted"
    /\ UNCHANGED <<watchVars, local, remote, run, plan, unchanged_count,
                   result, prev_ok, hashed, genVars>>

\* a pool worker runs generate_tile: render | pngquant > <tile>.png.  open
\* raises when the folder of the tile is missing; the exit codes of render
\* and pngquant are not looked at, so the job returns also when a tool
\* failed and left the file without an image
RenderJob ==
    \E j \in 1..Len(jobs) :
        /\ pc \in {"render", "render2x"}
        /\ jobs[j].kind = "render"
        /\ status[j] = "pending"
        /\ LET output_path == jobs[j].paths[1]
           IN IF FolderOf(output_path) \in dirs
              THEN /\ \E returncode \in {0, 1} :
                        local' = (output_path :>
                                    IF returncode = 0 THEN "c1" ELSE Truncated)
                                 @@ local
                   /\ status' = [status EXCEPT ![j] = "ok"]
              ELSE /\ local' = local
                   /\ status' = [status EXCEPT ![j] = "fail"]
        /\ UNCHANGED <<jobs, finished, cfg, wpc, raised, jobs_complete, awaited,
                       clock, last_elapsed, calls, result>>
        /\ UNCHANGED <<remote, pc, run, plan, unchanged_count, prev_ok, hashed,
                       genVars>>

\* the first pass returned: render_tiles queues the front-page tile, zoom 0
\* with the suffix @2x
RenderHighRes ==
    /\ pc = "render"
    /\ wpc = "done"
    /\ result' = [tile_count |-> Len(jobs)]
    /\ dirs' = create_tile_subfolders(enumerate_tiles(shapes_dir, 0), dirs)
    /\ EnterWatchJobs(RenderJobs(shapes_dir, 0, "@2x"),
                      OnProgressOnly("render_tiles.on_progress"))
    /\ pc' = "render2x"
    /\ UNCHANGED <<local, remote, run, plan, unchanged_count, prev_ok,
                   hashed, tables, frame, csv_dir, quadtree_dir, shapes_dir,
                   cmds, main>>

\* render_tiles returned: generate goes on to its upload branch, or returns
\* its result when upload is off
RenderDone ==
    /\ pc = "render2x"
    /\ wpc = "done"
    /\ pc' = IF main.upload THEN "start" ELSE "returned"
    /\ result' = [tile_count |-> result.tile_count + Len(jobs)]
    /\ UNCHANGED <<jobs, status, finished, cfg, wpc, raised, jobs_complete,
                   awaited, clock, last_elapsed, calls>>
    /\ UNCHANGED <<local, remote, run, plan, unchanged_count, prev_ok, hashed,
                   genVars>>

\* watch_jobs raised in a stage of the create phase: the exception leaves
\* the stage and generate, and the with block terminates the pool
GenerateRaises ==
    /\ pc \in {"export", "encode", "merge", "render", "render2x"}
    /\ wpc = "raised"
    /\ pc' = "aborted"
    /\ UNCHANGED <<watchVars, local, remote, run, plan, unchanged_count,
                   result, prev_ok, hashed, genVars>>

\* the tables of a full run: up to two rows in the north-east, up to one in
\* the south-west, each row yielding one point
RunTables ==
    {("ne" :> ne) @@ ("sw" :> sw) :
        ne \in UNION {[1..n -> {<<"p">>, <<"q">>}] : n \in 0..2},
        sw \in UNION {[1..n -> {<<"p">>}] : n \in 0..1}}

\* generate(create=True, upload=True) on a fresh output directory, with a
\* bucket holding a tile of an earlier run
GenInit ==
    /\ tables \in RunTables
    /\ frame = NoFrame
    /\ csv_dir = <<>>
    /\ quadtree_dir = <<>>
    /\ shapes_dir = EmptyQuadtree
    /\ cmds = <<>>
    /\ dirs = {}
    /\ main = NoMain
    /\ local = <<>>
    /\ remote = (Key(bucket_prefix, "0/0/0@2x.png") :> Uploaded("c2"))
    /\ pc = "create"
    /\ run = 1
    /\ plan = NoPlan
    /\ unchanged_count = 0
    /\ result = ZeroResult
    /\ prev_ok = FALSE
    /\ hashed = {}
    /\ jobs = <<>>
    /\ status = <<>>
    /\ finished = <<>>
    /\ cfg = [on_success |-> "None", on_error |-> "None",
              on_progress |-> "None", raven_client |-> FALSE]
    /\ wpc = "idle"
    /\ raised = "none"
    /\ jobs_complete = 0
    /\ awaited = {}
    /\ clock = 0
    /\ last_elapsed = 0
    /\ calls = <<>>

GenNext ==
    \/ ExportToCsvs
    \/ ExportJob
    \/ CreateJobFails
    \/ GenerateNoRows
    \/ CsvToQuadtrees
    \/ EncodeJob
    \/ QueueMergeJobs
    \/ MergeJob
    \/ MergeAndRender
    \/ GlobalMergeFails
    \/ EnumerateFails
    \/ RenderJob
    \/ RenderHighRes
    \/ RenderDone
    \/ GenerateRaises
    \/ WatchLoopExit
    \/ WatchNoProgress
    \/ WatchProgress
    \/ GetSuccessNoCallback
    \/ GetSuccess
    \/ GetFailure
    \/ Interrupt
    \/ GetSyncPlan
    \/ SyncTiles
    \/ SyncJobSucceeds
    \/ SyncJobFails
    \/ UploadStatusFile
    \/ SyncAbort

GenSpec == GenInit /\ [][GenNext]_vars

\* the tile an earlier run left in the bucket
EarlierRemote == (Key(bucket_prefix, "0/0/0@2x.png") :> Uploaded("c2"))

\* the CSV directory after the export jobs of all the given shards ran on dir
RECURSIVE ExportAll(_, _, _)
ExportAll(dir, tbls, shards) ==
    IF shards = <<>> THEN dir
    ELSE ExportAll(export_to_csv(MapName(Head(shards)), dir, tbls[Head(shards)],
                                 Head(shards), 0, 0).dir,
                   tbls, Tail(shards))

\* the tables an earlier run exported: two rows in the north-east, one in
\* the south-west
EarlierTables ==
    ("ne" :> <<(<<"q">>), (<<"p">>)>>) @@ ("sw" :> <<(<<"q">>)>>)

\* the tables of the next run: the north-east has lost rows, the south-west
\* is empty
LaterTables ==
    {("ne" :> ne) @@ ("sw" :> <<>>) :
        ne \in {<<>>, <<(<<"p">>)>>, <<(<<"p">>), (<<"p">>)>>}}

\* generate(create=True, upload=True) on the output directory of an earlier
\* run that exported EarlierTables and encoded its CSV files: the directory
\* csv/ holds that run's files, quadtrees/ their quadtrees
RegenInit ==
    /\ tables \in LaterTables
    /\ frame = NoFrame
    /\ csv_dir = ExportAll(<<>>, EarlierTables, Shards)
    /\ quadtree_dir = [n \in DOMAIN ExportAll(<<>>, EarlierTables, Shards) |->
                         Encode(ExportAll(<<>>, EarlierTables, Shards)[n])]
    /\ shapes_dir = EmptyQuadtree
    /\ cmds = <<>>
    /\ dirs = {}
    /\ main = NoMain
    /\ local = <<>>
    /\ remote = EarlierRemote
    /\ pc = "create"
    /\ run = 2
    /\ plan = NoPlan
    /\ unchanged_count = 0
    /\ result = ZeroResult
    /\ prev_ok = FALSE
    /\ hashed = {}
    /\ jobs = <<>>
    /\ status = <<>>
    /\ finished = <<>>
    /\ cfg = [on_success |-> "None", on_error |-> "None",
              on_progress |-> "None", raven_client |-> FALSE]
    /\ wpc = "idle"
    /\ raised = "none"
    /\ jobs_complete = 0
    /\ awaited = {}
    /\ clock = 0
    /\ last_elapsed = 0
    /\ calls = <<>>

RegenSpec == RegenInit /\ [][GenNext]_vars

(***************************************************************************)
(* main: the command line, the checks before the run, the exit code.       *)
(***************************************************************************)
\* the tiles directory of the --output directory
TilesFolder == "tiles"

\* the consistency check of output_dir, create and upload
exit_earlyNoTilesCheck(args, folders) ==
    IF args.output THEN 0
    ELSE IF (args.create /\ ~args.upload) \/ (args.upload /\ ~args.create)
         THEN 1 ELSE 0

\* the consistency check of main: exit_early is 1 when --upload comes without
\* --create and the tiles subfolder of --output is missing, or when --output
\* is missing and only one of --create and --upload is given
exit_early(args, folders) ==
    IF args.output
    THEN IF ~args.create /\ TilesFolder \notin folders THEN 1 ELSE 0
    ELSE IF (args.create /\ ~args.upload) \/ (args.upload /\ ~args.create)
         THEN 1 ELSE 0

\* main returns code
Exit(m, code) == [m EXCEPT !.mpc = "exit", !.exit_code = code]
\* an exception leaves main: the interpreter ends with status 1
Uncaught(m) == [m EXCEPT !.mpc = "raised", !.exit_code = 1]

\* main from the parsed command line to "Exit early with help message if
\* error or nothing to do"
MainValidate ==
    /\ main.mpc = "parse"
    /\ LET e == exit_early(main, dirs)
       IN main' = IF e # 0 \/ ~(main.create \/ main.upload)
                  THEN Exit(main, e)
                  ELSE [main EXCEPT !.mpc = "bucket"]
    /\ UNCHANGED <<watchVars, syncVars, tables, frame, csv_dir, quadtree_dir,
                   shapes_dir, cmds, dirs>>

\* the bucket name and check_bucket: without upload nothing is checked; with
\* upload an empty name returns 1, and check_bucket returns (True, None),
\* returns (False, message) after head_bucket failed, or raises out of
\* put_object when the bucket cannot be written; the test object a passed
\* check has put is deleted again
MainCheckBucket ==
    /\ main.mpc = "bucket"
    /\ \E outcome \in {"works", "fails", "raises"} :
        main' = IF ~main.upload THEN [main EXCEPT !.mpc = "generate"]
                ELSE IF ~main.bucket_name THEN Exit(main, 1)
                ELSE CASE outcome = "works" ->
                            [main EXCEPT !.mpc = "generate", !.check = outcome]
                       [] outcome = "fails" ->
                            Exit([main EXCEPT !.check = outcome], 1)
                       [] outcome = "raises" ->
                            Uncaught([main EXCEPT !.check = outcome])
    /\ UNCHANGED <<watchVars, syncVars, tables, frame, csv_dir, quadtree_dir,
                   shapes_dir, cmds, dirs>>

\* main calls generate(output_dir or temp_dir, bucket_name, raven_client,
\* create, upload, concurrency): the create branch first if create is set
MainGenerate ==
    /\ main.mpc = "generate"
    /\ main' = [main EXCEPT !.mpc = "running"]
    /\ pc' = IF main.create THEN "create" ELSE "start"
    /\ UNCHANGED <<watchVars, local, remote, run, plan, unchanged_count,
                   result, prev_ok, hashed, tables, frame, csv_dir,
                   quadtree_dir, shapes_dir, cmds, dirs>>

\* what is left of the working directory after the run: a temporary
\* directory is removed with all it holds
Retained(m, x, empty) == IF m.output THEN x ELSE empty

\* the end of the try block of main, whatever way generate ended
MainEnds(m) ==
    /\ main' = m
    /\ local' = Retained(m, local, <<>>)
    /\ csv_dir' = Retained(m, csv_dir, <<>>)
    /\ quadtree_dir' = Retained(m, quadtree_dir, <<>>)
    /\ shapes_dir' = Retained(m, shapes_dir, EmptyQuadtree)
    /\ dirs' = Retained(m, dirs, {})
    /\ UNCHANGED <<watchVars, remote, pc, run, plan, unchanged_count, result,
                   prev_ok, hashed, tables, frame, cmds>>

\* generate returned: success stays True, the canonical log line is written
\* and main returns 0
MainReturn ==
    /\ main.mpc = "running"
    /\ pc \in {"returned", "done"}
    /\ MainEnds(Exit([main EXCEPT !.success = TRUE], 0))

\* except KeyboardInterrupt: interrupted = True, success = False; the log
\* line says "interrupted" and main goes on to its return 0
MainInterrupted ==
    /\ main.mpc = "running"
    /\ pc = "aborted"
    /\ wpc = "raised" /\ raised = "KeyboardInterrupt"
    /\ MainEnds(Exit([main EXCEPT !.interrupted = TRUE, !.success = FALSE], 0))

\* except Exception: raven_client.captureException(), success = False, raise
MainRaises ==
    /\ main.mpc = "running"
    /\ pc = "aborted"
    /\ ~(wpc = "raised" /\ raised = "KeyboardInterrupt")
    /\ MainEnds(Uncaught([main EXCEPT !.captured = TRUE, !.success = FALSE]))

\* the tables of the runs main starts: no row at all, or two rows in the
\* north-east
MainTables ==
    {("ne" :> ne) @@ ("sw" :> <<>>) : ne \in {<<>>, <<(<<"p">>), (<<"q">>)>>}}

\* the tiles directory an earlier run with --output left
EarlierLocal == ("0/0/0.png" :> "c2")

\* main on any command line, with or without the tiles of an earlier run in
\* the --output directory, with or without a bucket name
MainInit ==
    /\ \E create \in BOOLEAN, upload \in BOOLEAN, output \in BOOLEAN,
          bucket_name \in BOOLEAN :
        main = [mpc |-> "parse", create |-> create, upload |-> upload,
                output |-> output, bucket_name |-> bucket_name,
                check |-> "none", exit_code |-> -1, success |-> TRUE,
                interrupted |-> FALSE, captured |-> FALSE]
    /\ \/ dirs = {} /\ local = <<>>
       \/ main.output /\ dirs = {TilesFolder, "tiles/0/0"} /\ local = EarlierLocal
    /\ tables \in MainTables
    /\ frame = NoFrame
    /\ csv_dir = <<>>
    /\ quadtree_dir = <<>>
    /\ shapes_dir = EmptyQuadtree
    /\ cmds = <<>>
    /\ remote = EarlierRemote
    /\ pc = "main"
    /\ run = 1
    /\ plan = NoPlan
    /\ unchanged_count = 0
    /\ result = ZeroResult
    /\ prev_ok = FALSE
    /\ hashed = {}
    /\ jobs = <<>>
    /\ status = <<>>
    /\ finished = <<>>
    /\ cfg = [on_success |-> "None", on_error |-> "None",
              on_progress |-> "None", raven_client |-> FALSE]
    /\ wpc = "idle"
    /\ raised = "none"
    /\ jobs_complete = 0
    /\ awaited = {}
    /\ clock = 0
    /\ last_elapsed = 0
    /\ calls = <<>>

MainNext ==
    \/ MainValidate
    \/ MainCheckBucket
    \/ MainGenerate
    \/ MainReturn
    \/ MainInterrupted
    \/ MainRaises
    \/ GenNext

MainSpec == MainInit /\ [][MainNext]_vars

\* the shard tables: any set of grid keys, any jitter outcome per row
Tables == UNION {[d -> RowPoints] : d \in SUBSET (1..MaxGrid)}

\* export_to_csv on its own, page by page: any table, any limits
ExportPage ==
    /\ frame.xpc = "loop"
    /\ LET tbl == tables[frame.tablename]
           rows == Query(tbl, frame.min_grid, frame.row_limit)
       IN /\ rows # <<>>
          /\ LET st == ExportBody([frame |-> frame, dir |-> csv_dir], rows, tbl)
             IN /\ frame' = st.frame
                /\ csv_dir' = st.dir
    /\ UNCHANGED <<watchVars, syncVars, tables, quadtree_dir, shapes_dir, cmds,
                   dirs, main>>

\* the query returns no rows: break, close, clean up, return
ExportReturn ==
    /\ frame.xpc = "loop"
    /\ Query(tables[frame.tablename], frame.min_grid, frame.row_limit) = <<>>
    /\ LET st == ExportEnd([frame |-> frame, dir |-> csv_dir])
       IN /\ frame' = st.frame
          /\ csv_dir' = st.dir
    /\ UNCHANGED <<watchVars, syncVars, tables, quadtree_dir, shapes_dir, cmds,
                   dirs, main>>

ExportInit ==
    /\ \E tbl \in Tables : tables = ("ne" :> tbl)
    /\ \E row_limit \in 0..MaxRowLimit, file_limit \in 0..MaxFileLimit :
        LET st == ExportBegin(MapName("ne"), <<>>, "ne", row_limit, file_limit)
        IN /\ frame = st.frame
           /\ csv_dir = st.dir
    /\ quadtree_dir = <<>>
    /\ shapes_dir = <<>>
    /\ cmds = <<>>
    /\ dirs = {}
    /\ main = NoMain
    /\ local = <<>>
    /\ remote = <<>>
    /\ pc = "export_to_csv"
    /\ run = 0
    /\ plan = NoPlan
    /\ unchanged_count = 0
    /\ result = ZeroResult
    /\ prev_ok = FALSE
    /\ hashed = {}
    /\ jobs = <<>>
    /\ status = <<>>
    /\ finished = <<>>
    /\ cfg = [on_success |-> "None", on_error |-> "None",
              on_progress |-> "None", raven_client |-> FALSE]
    /\ wpc = "idle"
    /\ raised = "none"
    /\ jobs_complete = 0
    /\ awaited = {}
    /\ clock = 0
    /\ last_elapsed = 0
    /\ calls = <<>>

ExportNext ==
    \/ ExportPage
    \/ ExportReturn

ExportSpec == ExportInit /\ [][ExportNext]_vars

(***************************************************************************)
(* ichnaea/api/locate/wifi.py: cluster_wifis.  A network is a record with  *)
(* its mac and position; the positions lie on one meridian, one step       *)
(* apart.  Python's indices 0..n-1 are the indices 1..n here.  The frame   *)
(* holds the locals of the call.                                           *)
(***************************************************************************)
\* ichnaea.geocalc.distance(lat1, lon1, lat2, lon2): the distance between
\* two points, here in steps along the grid lines
distance(lat1, lon1, lat2, lon2) ==
    (IF lat1 >= lat2 THEN lat1 - lat2 ELSE lat2 - lat1)
    + (IF lon1 >= lon2 THEN lon1 - lon2 ELSE lon2 - lon1)

\* the smallest member of a non-empty set of numbers
Min(S) == CHOOSE x \in S : \A y \in S : x <= y

\* cluster_distance that compares the first members only
cluster_distanceFirst(distance_matrix, a, b) == distance_matrix[a[1]][b[1]]

\* cluster_distance(a, b) inside cluster_wifis
cluster_distance(distance_matrix, a, b) ==
    Min({distance_matrix[a[i]][b[j]] : i \in 1..Len(a), j \in 1..Len(b)})

\* clusters.pop(j)
Pop(seq, j) == SubSeq(seq, 1, j - 1) \o SubSeq(seq, j + 1, Len(seq))

\* cluster_wifis(wifis) up to the while loop
ClusterBegin(wifis) ==
    [xpc |-> "while",
     wifis |-> wifis,
     distance_matrix |->
        [b \in 1..Len(wifis) |->
            [a \in 1..Len(wifis) |->
                distance(wifis[a].lat, wifis[a].lon,
                         wifis[b].lat, wifis[b].lon)]],
     clusters |-> [i \in 1..Len(wifis) |-> <<i>>],
     merged_one |-> TRUE,
     i |-> 0, j |-> 0, range_i |-> 0, range_j |-> 0]

\* the lists of networks cluster_wifis can be called with: the macs are
\* distinct (here the place in the list), the positions are any
Wifis ==
    UNION {{[i \in 1..n |-> [mac |-> i, lat |-> lats[i], lon |-> 0]] :
                lats \in [1..n -> 0..MaxCoord]} : n \in 0..MaxWifis}

\* while merged_one: the test is true, merged_one = False and the loop
\* over i starts
ClusterWhile ==
    /\ pc = "cluster_wifis"
    /\ frame.xpc = "while"
    /\ frame.merged_one
    /\ frame' = [frame EXCEPT !.merged_one = FALSE, !.i = 1,
                              !.range_i = Len(frame.clusters),
                              !.xpc = "for_i"]
    /\ UNCHANGED <<watchVars, syncVars, tables, csv_dir, quadtree_dir,
                   shapes_dir, cmds, dirs, main>>

\* while merged_one: the test is false, the clusters are returned as lists
\* of networks
ClusterReturn ==
    /\ pc = "cluster_wifis"
    /\ frame.xpc = "while"
    /\ ~frame.merged_one
    /\ frame' = [xpc |-> "returned",
                 wifis |-> frame.wifis,
                 value |-> [k \in 1..Len(frame.clusters) |->
                              [m \in 1..Len(frame.clusters[k]) |->
                                  frame.wifis[frame.clusters[k][m]]]]]
    /\ UNCHANGED <<watchVars, syncVars, tables, csv_dir, quadtree_dir,
                   shapes_dir, cmds, dirs, main>>

\* for i in range(len(clusters)): the loop ends, or breaks on merged_one, or
\* the loop over j starts
ClusterForI ==
    /\ pc = "cluster_wifis"
    /\ frame.xpc = "for_i"
    /\ frame' =
        IF frame.i > frame.range_i \/ frame.merged_one
        THEN [frame EXCEPT !.xpc = "while"]
        ELSE [frame EXCEPT !.j = 1, !.range_j = Len(frame.clusters),
                           !.xpc = "for_j"]
    /\ UNCHANGED <<watchVars, syncVars, tables, csv_dir, quadtree_dir,
                   shapes_dir, cmds, dirs, main>>

\* for j in range(len(clusters)): the loop ends or breaks on merged_one and
\* the next i follows; or i == j and the next j follows; or the clusters i
\* and j are compared and, when near enough, merged
ClusterForJ ==
    /\ pc = "cluster_wifis"
    /\ frame.xpc = "for_j"
    /\ frame' =
        IF frame.j > frame.range_j \/ frame.merged_one
        THEN [frame EXCEPT !.i = @ + 1, !.xpc = "for_i"]
        ELSE IF frame.i = frame.j
        THEN [frame EXCEPT !.j = @ + 1]
        ELSE LET a == frame.clusters[frame.i]
                 b == frame.clusters[frame.j]
             IN IF cluster_distance(frame.distance_matrix, a, b)
                    <= MAX_WIFI_CLUSTER_METERS
                THEN [frame EXCEPT
                        !.clusters = Pop([@ EXCEPT ![frame.i] = a \o b],
                                         frame.j),
                        !.merged_one = TRUE,
                        !.j = @ + 1]
                ELSE [frame EXCEPT !.j = @ + 1]
    /\ UNCHANGED <<watchVars, syncVars, tables, csv_dir, quadtree_dir,
                   shapes_dir, cmds, dirs, main>>

\* cluster_wifis alone, on any list of networks
ClusterInit ==
    /\ \E wifis \in Wifis : frame = ClusterBegin(wifis)
    /\ pc = "cluster_wifis"
    /\ local = <<>>
    /\ remote = <<>>
    /\ run = 0
    /\ plan = NoPlan
    /\ unchanged_count = 0
    /\ result = ZeroResult
    /\ prev_ok = FALSE
    /\ hashed = {}
    /\ tables = <<>>
    /\ csv_dir = <<>>
    /\ quadtree_dir = <<>>
    /\ shapes_dir = <<>>
    /\ cmds = <<>>
    /\ dirs = {}
    /\ main = NoMain
    /\ jobs = <<>>
    /\ status = <<>>
    /\ finished = <<>>
    /\ cfg = [on_success |-> "None", on_error |-> "None",
              on_progress |-> "None", raven_client |-> FALSE]
    /\ wpc = "idle"
    /\ raised = "none"
    /\ jobs_complete = 0
    /\ awaited = {}
    /\ clock = 0
    /\ last_elapsed = 0
    /\ calls = <<>>

ClusterNext ==
    \/ ClusterWhile
    \/ ClusterReturn
    \/ ClusterForI
    \/ ClusterForJ

\* the call runs on one thread that is never held up: a step that can be
\* taken is taken
ClusterSpec == ClusterInit /\ [][ClusterNext]_vars /\ WF_vars(ClusterNext)

(***************************************************************************)
(* Properties of the sync engine.                                          *)
(***************************************************************************)
\* the local .png files, by relative path
LocalTiles == {n \in DOMAIN local : EndsWithPng(n)}
\* the .png objects of the bucket under the tile prefix, by relative path
RemoteTiles == {k[2] : k \in {x \in DOMAIN remote :
                                x[1] = bucket_prefix /\ EndsWithPng(x[2])}}
\* the local file n and its remote object agree in size and in hash
SameContent(n) ==
    /\ SizeOf(local[n]) = remote[Key(bucket_prefix, n)].size
    /\ MD5(local[n]) = remote[Key(bucket_prefix, n)].etag
\* a sequence holds no element twice
NoRepeat(seq) == Cardinality(Range(seq)) = Len(seq)

\* C1: the plan get_sync_actions returns is the exact diff of the local .png
\* files L and the remote inventory R: upload = L \ R, update = the paths of
\* both whose size or hash differs, unchanged_count = the number of paths of
\* both equal in size and hash, delete = R \ L; every local file is in
\* exactly one of upload / update / unchanged, and no deleted path is
\* uploaded or updated.
DiffExact ==
    pc = "planned" =>
        /\ Range(plan.upload) = LocalTiles \ RemoteTiles
        /\ Range(plan.update) =
            {n \in LocalTiles \cap RemoteTiles : ~SameContent(n)}
        /\ unchanged_count =
            Cardinality({n \in LocalTiles \cap RemoteTiles : SameContent(n)})
        /\ Range(plan.delete) = RemoteTiles \ LocalTiles
        /\ NoRepeat(plan.upload) /\ NoRepeat(plan.update) /\ NoRepeat(plan.delete)
        /\ Range(plan.upload) \cap Range(plan.update) = {}
        /\ Len(plan.upload) + Len(plan.update) + unchanged_count
            = Cardinality(LocalTiles)
        /\ Range(plan.delete) \cap (Range(plan.upload) \cup Range(plan.update)) = {}

\* the case of the example: one tile on both sides and equal, one only
\* remote, one only local
DiffExample ==
    /\ pc = "planned"
    /\ LocalTiles = {"0/0/0.png", "1/1/0.png"}
    /\ RemoteTiles = {"0/0/0.png", "0/0/0@2x.png"}
    /\ SameContent("0/0/0.png")
    /\ plan = [upload |-> <<"1/1/0.png">>, update |-> <<>>,
               delete |-> <<"0/0/0@2x.png">>]
    /\ unchanged_count = 1

\* every local tile is in the bucket, under the tile prefix, with its size
\* and its hash
LocalTilesStored ==
    \A n \in LocalTiles :
        /\ Key(bucket_prefix, n) \in DOMAIN remote
        /\ SameContent(n)

\* C2, as claimed: after a sync run whose jobs all succeed, every local tile
\* is stored with matching size and hash and no object under the tile
\* prefix lacks a local counterpart.
SyncConvergesAllObjects ==
    (pc = "done" /\ prev_ok) =>
        /\ LocalTilesStored
        /\ \A k \in DOMAIN remote : k[1] = bucket_prefix => k[2] \in DOMAIN local

\* C2, amended: after a sync run whose jobs all succeed, every local tile is
\* stored with matching size and hash and no .png object under the tile
\* prefix lacks a local counterpart; other objects under the prefix stay.
SyncConverges ==
    (pc = "done" /\ prev_ok) =>
        /\ LocalTilesStored
        /\ RemoteTiles = LocalTiles

\* a fully successful run that uploaded, updated and deleted
SyncConvergesReached ==
    /\ pc = "done"
    /\ prev_ok
    /\ result.tile_new > 0
    /\ result.tile_changed > 0
    /\ result.tile_deleted > 0

\* C3: after a sync run whose jobs all succeeded, with no local and no
\* remote change since, the next plan is empty and counts every local tile
\* as unchanged.
SyncIdempotent ==
    (run > 1 /\ pc = "planned" /\ prev_ok) =>
        /\ plan = NoPlan
        /\ unchanged_count = Cardinality(LocalTiles)

\* the plan of a second run after a first run that uploaded and deleted
SyncIdempotentReached ==
    /\ run > 1
    /\ pc = "planned"
    /\ prev_ok
    /\ result.tile_new + result.tile_changed > 0
    /\ result.tile_deleted > 0
    /\ unchanged_count > 0

(***************************************************************************)
(* Properties of watch_jobs.                                               *)
(***************************************************************************)
\* number of invocations of callback cb for job j
NCalls(cb, j) ==
    Cardinality({i \in 1..Len(calls) : calls[i].cb = cb /\ calls[i].job = j})
\* the invocations of on_progress, in order
ProgressCalls == SelectSeq(calls, LAMBDA c : c.cb = "on_progress")

\* C4: without on_error the batch aborts at the first failing job k: no
\* failed job is ever passed, and when the failure is re-raised the loop is
\* at job k, on_success has run exactly once for each of the jobs 1..k-1
\* and for no other, jobs 1..k are the only ones awaited and no job after k
\* has had a callback.
BatchAbort ==
    cfg.on_error = "None" =>
        /\ \A j \in 1..jobs_complete : status[j] = "ok"
        /\ raised = "JobError" =>
            /\ wpc = "raised"
            /\ status[CurrentJob] = "fail"
            /\ awaited = 1..CurrentJob
            /\ cfg.on_success # "None" =>
                \A j \in 1..Len(jobs) :
                    NCalls("on_success", j) = IF j < CurrentJob THEN 1 ELSE 0
            /\ \A i \in 1..Len(calls) : calls[i].job <= CurrentJob

\* job 2 of 3 is the first to fail, without on_error and with on_success
BatchAbortReached ==
    /\ cfg.on_error = "None"
    /\ cfg.on_success = "stub"
    /\ raised = "JobError"
    /\ CurrentJob = 2
    /\ Len(jobs) = 3
    /\ status[3] # "pending"
    /\ NCalls("on_success", 1) = 1

\* C5: with on_error a failing job never aborts the batch: watch_jobs never
\* raises a job's or a callback's exception, every job handled had on_error
\* exactly once if it failed and on_success exactly once if it succeeded,
\* and on return every job was awaited; when no on_success call raised,
\* on_error ran as often as jobs failed.
FailureIsolation ==
    cfg.on_error # "None" =>
        /\ raised \notin {"JobError", "CallbackError"}
        /\ \A j \in 1..jobs_complete :
            /\ status[j] = "fail" =>
                NCalls("on_error", j) = 1 /\ NCalls("on_success", j) = 0
            /\ status[j] = "ok" =>
                /\ cfg.on_success # "None" => NCalls("on_success", j) = 1
                /\ cfg.on_success # "faulty" => NCalls("on_error", j) = 0
        /\ wpc = "done" =>
            /\ jobs_complete = Len(jobs)
            /\ awaited = 1..Len(jobs)
        /\ cfg.on_success # "faulty" =>
            Len(SelectSeq(calls, LAMBDA c : c.cb = "on_error"))
                = Cardinality({j \in 1..jobs_complete : status[j] = "fail"})

\* three jobs, one failed: one on_error call, two on_success calls, returned
FailureIsolationReached ==
    /\ cfg.on_error = "stub"
    /\ cfg.on_success = "stub"
    /\ wpc = "done"
    /\ Len(jobs) = 3
    /\ status[2] = "fail"
    /\ Len(SelectSeq(calls, LAMBDA c : c.cb = "on_error")) = 1
    /\ Len(SelectSeq(calls, LAMBDA c : c.cb = "on_success")) = 2

\* job j was awaited and the loop is through with it
Handled(j) ==
    \/ j <= jobs_complete
    \/ wpc = "raised" /\ j = CurrentJob /\ j \in awaited
\* the error path was taken for job j: its failure was reported, passed to
\* on_error, or re-raised
ErrorPath(j) ==
    \/ NCalls("captureException", j) > 0
    \/ NCalls("on_error", j) > 0
    \/ /\ wpc = "raised"
       /\ j = CurrentJob
       /\ raised \in {"JobError", "KeyboardInterrupt"}

\* C6, as claimed: for every job awaited and handled, with on_success
\* supplied, exactly one of on_success and the error path fired, whatever
\* the callbacks do.
ExactlyOneOutcome ==
    cfg.on_success # "None" =>
        \A j \in awaited :
            Handled(j) => ((NCalls("on_success", j) > 0) # ErrorPath(j))

\* C7: the success and error callbacks run in the order of the job list,
\* whatever the order in which the pool completes the jobs.
CallbackOrder ==
    \A a, b \in 1..Len(calls) :
        (/\ a < b
         /\ calls[a].cb \in {"on_success", "on_error"}
         /\ calls[b].cb \in {"on_success", "on_error"})
        => calls[a].job <= calls[b].job

\* a job later in the list finished first, and both had their callback
CallbackOrderReached ==
    /\ Len(finished) >= 2
    /\ finished[1] > finished[2]
    /\ NCalls("on_success", finished[1]) + NCalls("on_error", finished[1]) > 0
    /\ NCalls("on_success", finished[2]) + NCalls("on_error", finished[2]) > 0

\* the state after an interrupt: nothing reported for the job awaited, no
\* later job awaited or called back
InterruptedState ==
    raised = "KeyboardInterrupt" =>
        /\ wpc = "raised"
        /\ NCalls("on_error", CurrentJob) = 0
        /\ NCalls("captureException", CurrentJob) = 0
        /\ NCalls("on_success", CurrentJob) = 0
        /\ awaited = 1..CurrentJob
        /\ \A i \in 1..Len(calls) : calls[i].job < CurrentJob

\* C8: an interrupt while a job is awaited leaves watch_jobs at once: the
\* loop leaves a pending job only by the interrupt, which invokes nothing
\* (no on_error, no error report, with or without them supplied), and after
\* it no later job is awaited.
InterruptAborts ==
    /\ []InterruptedState
    /\ [][(wpc = "get" /\ status[CurrentJob] = "pending" /\ wpc' # "get")
            => (/\ raised' = "KeyboardInterrupt"
                /\ wpc' = "raised"
                /\ calls' = calls
                /\ awaited' = awaited)]_vars

\* interrupted at job 2 with on_error and the error tracker supplied
InterruptAbortsReached ==
    /\ raised = "KeyboardInterrupt"
    /\ cfg.on_error = "stub"
    /\ cfg.raven_client
    /\ CurrentJob = 2
    /\ Len(jobs) = 3
    /\ status[2] = "pending"

\* every on_progress call so far: count within 0..total, fraction equal to
\* count / total, counts non-decreasing
ProgressCallsBounded ==
    \A i \in 1..Len(ProgressCalls) :
        LET done == ProgressCalls[i].arg[1]
            fraction == ProgressCalls[i].arg[2]
        IN /\ 0 <= done /\ done <= Len(jobs)
           /\ fraction.den # 0
           /\ fraction.num * Len(jobs) = done * fraction.den
           /\ i > 1 => ProgressCalls[i - 1].arg[1] <= done

\* C9: the done_count on_progress reports is non-decreasing, within
\* 0..total, and the fraction is done_count / total; on_progress is invoked
\* only before a job is awaited, with the number of jobs handled so far.
ProgressCounts ==
    /\ []ProgressCallsBounded
    /\ [][(Len(calls') > Len(calls) /\ calls'[Len(calls')].cb = "on_progress")
            => (/\ wpc = "top"
                /\ wpc' = "get"
                /\ CurrentJob \notin awaited
                /\ calls'[Len(calls')].arg[1] = Cardinality(awaited)
                /\ \A j \in awaited : Handled(j))]_vars

\* on_progress ran twice, the second time with a larger count
ProgressCountsReached ==
    /\ Len(ProgressCalls) = 2
    /\ ProgressCalls[1].arg[1] = 1
    /\ ProgressCalls[2].arg[1] = 2

\* C10, as claimed: with any subset of the callbacks omitted, watch_jobs on
\* jobs that all succeed raises nothing (no callback raises, no interrupt).
OptionalCallbacks ==
    (/\ \A j \in 1..Len(jobs) : status[j] = "ok"
     /\ cfg.on_success # "faulty"
     /\ raised # "KeyboardInterrupt")
    => wpc # "raised"

(***************************************************************************)
(* Properties of export_to_csv.                                            *)
(***************************************************************************)
\* the table of the running export and the rows fetched so far, in order
ExportTable == tables[frame.tablename]
RECURSIVE Concat(_)
Concat(pages) == IF pages = <<>> THEN <<>> ELSE Head(pages) \o Concat(Tail(pages))
FetchedRows == Concat(frame.fetched)
\* ceil(a / b)
Ceil(a, b) == (a + b - 1) \div b
\* export_to_csv has returned (result_rows, file_count)
ExportReturned == frame.xpc = "returned"
\* the file rotated at least once: the rotation test follows every page and
\* result_rows never decreases
Rotated == frame.result_rows >= frame.file_limit
\* the numbered names submap_<shard>_0001 .. submap_<shard>_<n>
Numbered(n) == {SubName(frame.orig_file_path, i) : i \in 1..n}
\* every row of the table yields exactly one line
OneLinePerRow == \A g \in DOMAIN ExportTable : Len(ExportTable[g]) = 1

\* C12, as claimed: when every row yields one line and the page size divides
\* the file-row threshold F, exporting R rows leaves ceil(R / F) segments
\* and returns that count.
RotationAtThreshold ==
    (/\ ExportReturned
     /\ OneLinePerRow
     /\ frame.file_limit % frame.row_limit = 0)
    => /\ frame.file_count = Ceil(frame.result_rows, frame.file_limit)
       /\ Cardinality(DOMAIN csv_dir) = Ceil(frame.result_rows, frame.file_limit)

\* C13, as claimed: an export of exactly threshold-many output rows leaves
\* one file, under the base name, and returns the file count 1.
ExactThresholdOneFile ==
    (ExportReturned /\ frame.result_rows = frame.file_limit)
    => /\ DOMAIN csv_dir = {frame.orig_file_path}
       /\ frame.file_count = 1

PlacesOf(line) ==
    {pl \in UNION {{<<name, i>> : i \in 1..Len(csv_dir[name])} :
                      name \in DOMAIN csv_dir} :
        csv_dir[pl[1]][pl[2]] = line}
\* the lines of the row with key g
LinesOfRow(g) ==
    {[grid |-> g, n |-> i, point |-> ExportTable[g][i]] :
        i \in 1..Len(ExportTable[g])}
RECURSIVE SumLen(_, _)
SumLen(f, S) ==
    IF S = {} THEN 0
    ELSE LET x == CHOOSE y \in S : TRUE IN Len(f[x]) + SumLen(f, S \ {x})

\* every row with a key up to min_grid was fetched once, in ascending key
\* order, in pages of at most row_limit rows; every line of a fetched row
\* is written once, the lines of a row in one file, and no other line is
\* written; at the return every row was fetched and the number of pages is
\* ceil(rows / row_limit)
PaginationState ==
    frame.xpc # "idle" =>
        /\ FetchedRows = Ascending({k \in DOMAIN ExportTable : k <= frame.min_grid})
        /\ \A i \in 1..Len(frame.fetched) :
            /\ frame.fetched[i] # <<>>
            /\ Len(frame.fetched[i]) <= frame.row_limit
        /\ \A g \in Range(FetchedRows) :
            /\ \A line \in LinesOfRow(g) : Cardinality(PlacesOf(line)) = 1
            /\ Cardinality({pl[1] : pl \in UNION {PlacesOf(line) :
                                                    line \in LinesOfRow(g)}}) <= 1
        /\ SumLen(csv_dir, DOMAIN csv_dir) = SumLen(ExportTable, Range(FetchedRows))
        /\ frame.result_rows = SumLen(ExportTable, Range(FetchedRows))
        /\ ExportReturned =>
            /\ FetchedRows = Ascending(DOMAIN ExportTable)
            /\ Len(frame.fetched) =
                Ceil(Cardinality(DOMAIN ExportTable), frame.row_limit)

\* C15: keyset pagination visits every row of the shard table exactly once,
\* in ascending key order, for every table and every page size: a page
\* holds the first row_limit keys above the last key of the page before it,
\* the lines of every fetched row are written once and to one segment, and
\* the loop ends with the first empty page, when every row was fetched.
KeysetPagination ==
    /\ []PaginationState
    /\ [][(frame.xpc = "loop" /\ frame'.xpc = "loop")
            => LET page == frame'.fetched[Len(frame'.fetched)]
               IN /\ Len(frame'.fetched) = Len(frame.fetched) + 1
                  /\ \A i \in 1..Len(page) : page[i] > frame.min_grid
                  /\ \A k \in DOMAIN ExportTable :
                        (k > frame.min_grid /\ k < page[Len(page)])
                            => k \in Range(page)
                  /\ frame'.min_grid = page[Len(page)]
                  /\ frame'.min_grid > frame.min_grid]_vars

\* a table with a gap in its keys, exported in three pages to two segments,
\* one row with two lines and one with none
KeysetPaginationReached ==
    /\ ExportReturned
    /\ DOMAIN ExportTable = {1, 2, 4}
    /\ Len(frame.fetched) = 3
    /\ \E g \in DOMAIN ExportTable : Len(ExportTable[g]) = 2
    /\ \E g \in DOMAIN ExportTable : Len(ExportTable[g]) = 0
    /\ frame.file_count = 2

(***************************************************************************)
(* Properties of the create phase of generate.                             *)
(***************************************************************************)
\* the points the rows of the tables yield
TablePoints ==
    {tables[s][g][i] : <<s, g, i>> \in
        {x \in (DOMAIN tables) \X (1..MaxGrid) \X (1..2) :
            /\ x[2] \in DOMAIN tables[x[1]]
            /\ x[3] \in 1..Len(tables[x[1]][x[2]])}}
\* the CSV segments of a shard, and how often they hold a point in all
Segments(shard) == {f \in DOMAIN csv_dir : f[1] = "submap" /\ f[2] = shard}
RECURSIVE CountInFiles(_, _)
CountInFiles(p, files) ==
    IF files = {} THEN 0
    ELSE LET f == CHOOSE x \in files : TRUE
         IN Encode(csv_dir[f])[p] + CountInFiles(p, files \ {f})
\* the merge commands run for the shapes directory
GlobalMerges == SelectSeq(cmds, LAMBDA c : c.out = <<"shapes">>)

\* C11: every shard-level merge runs without duplicate removal and leaves
\* the multiset union of the shard's segments; the one global merge runs
\* with duplicate removal and leaves every point of every table exactly
\* once, and no other point.
MergePolicy ==
    /\ \A i \in 1..Len(cmds) : cmds[i].u = (cmds[i].out = <<"shapes">>)
    /\ Len(GlobalMerges) <= 1
    /\ \A i \in 1..Len(cmds) :
        cmds[i].out # <<"shapes">> =>
            LET shard == cmds[i].out[2]
            IN /\ cmds[i].inputs = Segments(shard)
               /\ \A p \in Points :
                    quadtree_dir[MapName(shard)][p] = CountInFiles(p, Segments(shard))
    /\ Len(GlobalMerges) = 1 =>
        \A p \in Points : shapes_dir[p] = IF p \in TablePoints THEN 1 ELSE 0

\* the point p lies in two segments of the north-east and in the south-west:
\* twice in the shard's quadtree, once in the shapes
MergePolicyReached ==
    /\ Len(GlobalMerges) = 1
    /\ Cardinality(Segments("ne")) = 2
    /\ {MapName("ne"), MapName("sw")} \subseteq DOMAIN quadtree_dir
    /\ quadtree_dir[MapName("ne")]["p"] = 2
    /\ quadtree_dir[MapName("sw")]["p"] = 1
    /\ shapes_dir["p"] = 1

\* the position of generate, in the order of its stages
StageRank(at) ==
    CASE at = "create" -> 0
      [] at = "export" -> 1
      [] at = "encode" -> 2
      [] at = "merge" -> 3
      [] at = "render" -> 4
      [] at = "render2x" -> 5
      [] at = "start" -> 6
      [] at = "planned" -> 7
      [] at = "syncing" -> 8
      [] at = "done" -> 9
      [] OTHER -> 10
\* the kinds of job a stage dispatches
StageKinds(at) ==
    CASE at = "export" -> {"export"}
      [] at = "encode" -> {"encode"}
      [] at = "merge" -> {"merge"}
      [] at \in {"render", "render2x"} -> {"render"}
      [] at = "syncing" -> {"upload", "update", "delete"}
      [] OTHER -> {}
\* every job of the list has resolved and was awaited
AllResolved == \A j \in 1..Len(jobs) : status[j] # "pending" /\ j \in awaited
\* a job not yet resolved belongs to the stage generate is at; from the
\* upload branch on the tiles of both render passes are on disk
StageState ==
    /\ pc # "aborted" =>
        \A j \in 1..Len(jobs) :
            status[j] = "pending" => jobs[j].kind \in StageKinds(pc)
    /\ pc \in {"start", "planned", "syncing", "done"} =>
        /\ Len(GlobalMerges) = 1
        /\ \A i \in 1..Len(RenderJobs(shapes_dir, max_zoom, "")) :
            RenderJobs(shapes_dir, max_zoom, "")[i].paths[1] \in DOMAIN local
        /\ \A i \in 1..Len(RenderJobs(shapes_dir, 0, "@2x")) :
            RenderJobs(shapes_dir, 0, "@2x")[i].paths[1] \in DOMAIN local

\* C16: the stages of generate run in the order export, encode, shard-level
\* merge, global merge, render, high-resolution render, sync plan, sync;
\* generate moves to the next stage, and dispatches its jobs, only when
\* every job of the stage before has resolved and was awaited (in the
\* create phase: has succeeded), and leaves the order only by returning or
\* raising.
StageSequencing ==
    /\ []StageState
    /\ [][pc' # pc =>
            /\ StageRank(pc') > StageRank(pc)
            /\ pc' \notin {"returned", "aborted"} =>
                StageRank(pc') = StageRank(pc) + 1
            /\ pc' # "aborted" => AllResolved
            /\ (pc # "syncing" /\ pc' \notin {"returned", "aborted"}) =>
                \A j \in 1..Len(jobs) : status[j] = "ok"]_vars
    /\ [][jobs' # jobs => (pc' # pc /\ AllResolved)]_vars
    /\ [][Len(GlobalMerges') > Len(GlobalMerges) =>
            (pc = "merge" /\ pc' \in {"render", "aborted"} /\ AllResolved)]_vars

\* a run through every stage: two segments encoded and merged, three tiles
\* rendered in two passes, then planned and synced
StageSequencingReached ==
    /\ pc = "done"
    /\ Len(cmds) = 2
    /\ Cardinality(DOMAIN local) = 3
    /\ result.tile_new = 2
    /\ result.tile_changed = 1

(***************************************************************************)
(* Properties of sync_tiles and get_sync_actions.                          *)
(***************************************************************************)
\* the jobs of a kind, in the order of the job list, and their paths
JobsOfKind(kind) == SelectSeq(jobs, LAMBDA job : job.kind = kind)
PathsOfKind(kind) ==
    Concat([i \in 1..Len(JobsOfKind(kind)) |-> JobsOfKind(kind)[i].paths])
\* the jobs of a kind the loop is through with, with a given outcome
HandledJobs(kind, outcome) ==
    {j \in 1..jobs_complete : jobs[j].kind = kind /\ status[j] = outcome}
\* sync_tiles was called for the plan
InSyncTiles == pc \in {"syncing", "done", "aborted"}

\* C17: in sync_tiles every planned upload and update has one job, in plan
\* order, and the job list never changes (no retry); a failing job never
\* leaves watch_jobs as an exception, tile_failed counts the failed jobs
\* handled, tile_new and tile_changed the upload and update jobs that
\* succeeded, and when watch_jobs returns every job was awaited.
SyncFailuresCounted ==
    InSyncTiles =>
        /\ PathsOfKind("upload") = plan.upload
        /\ PathsOfKind("update") = plan.update
        /\ \A j \in 1..Len(jobs) :
            jobs[j].kind \in {"upload", "update"} => Len(jobs[j].paths) = 1
        /\ Len(jobs) = Len(JobsOfKind("upload")) + Len(JobsOfKind("update"))
                       + Len(JobsOfKind("delete"))
        /\ raised \notin {"JobError", "CallbackError", "TypeError"}
        /\ result.tile_failed =
            Cardinality({j \in 1..jobs_complete : status[j] = "fail"})
        /\ result.tile_new = Cardinality(HandledJobs("upload", "ok"))
        /\ result.tile_changed = Cardinality(HandledJobs("update", "ok"))
        /\ NCalls("on_error", 0) = 0
        /\ \A j \in 1..Len(jobs) : NCalls("on_success", j) + NCalls("on_error", j)
                                        = IF j <= jobs_complete THEN 1 ELSE 0
        /\ wpc = "done" =>
            /\ jobs_complete = Len(jobs)
            /\ awaited = 1..Len(jobs)

\* sync_tiles returned after an upload that succeeded and an update and a
\* delete that failed
SyncFailuresCountedReached ==
    /\ pc = "syncing"
    /\ wpc = "done"
    /\ Len(jobs) = 3
    /\ jobs[1].kind = "upload" /\ status[1] = "ok"
    /\ jobs[2].kind = "update" /\ status[2] = "fail"
    /\ jobs[3].kind = "delete" /\ status[3] = "fail"
    /\ result.tile_failed = 2
    /\ result.tile_new = 1

\* C18: the paths to delete are in ascending order and the delete jobs
\* hold them, in that order, in batches of delete_batch_size keys, the last
\* one possibly smaller and none empty: every path is in exactly one
\* request, and an empty delete list gives no delete job.
DeleteBatches ==
    InSyncTiles =>
        /\ plan.delete = Sorted(Range(plan.delete))
        /\ PathsOfKind("delete") = plan.delete
        /\ NoRepeat(PathsOfKind("delete"))
        /\ \A i \in 1..Len(JobsOfKind("delete")) :
            /\ Len(JobsOfKind("delete")[i].paths) >= 1
            /\ Len(JobsOfKind("delete")[i].paths) <= delete_batch_size
            /\ i < Len(JobsOfKind("delete")) =>
                Len(JobsOfKind("delete")[i].paths) = delete_batch_size
        /\ plan.delete = <<>> => JobsOfKind("delete") = <<>>

\* more paths to delete than one batch holds: a full batch and a smaller one
DeleteBatchesReached ==
    /\ pc = "syncing"
    /\ Len(plan.delete) > delete_batch_size
    /\ Len(JobsOfKind("delete")) = 2
    /\ Len(JobsOfKind("delete")[1].paths) = delete_batch_size
    /\ Len(JobsOfKind("delete")[2].paths) < delete_batch_size

\* C19: when the loop is through with a delete job, a batch that reported
\* errors adds exactly 1 to tile_failed and nothing to tile_deleted,
\* whatever its size, and a batch without error adds the number of its
\* keys to tile_deleted and nothing to tile_failed.
DeleteBatchAccounting ==
    [][(/\ pc = "syncing"
        /\ jobs_complete' = jobs_complete + 1
        /\ jobs[CurrentJob].kind = "delete")
       => IF status[CurrentJob] = "fail"
          THEN result' = [result EXCEPT !.tile_failed = @ + 1]
          ELSE result' = [result EXCEPT
                            !.tile_deleted = @ + Len(jobs[CurrentJob].paths)]]_vars

\* a batch of two keys failed and counts as one failure, a batch of one key
\* was deleted
DeleteBatchAccountingReached ==
    /\ pc = "syncing"
    /\ wpc = "done"
    /\ \E j \in 1..Len(jobs) :
        /\ jobs[j].kind = "delete"
        /\ Len(jobs[j].paths) = 2
        /\ status[j] = "fail"
    /\ \E j \in 1..Len(jobs) :
        /\ jobs[j].kind = "delete"
        /\ status[j] = "ok"
    /\ result.tile_failed = 1
    /\ result.tile_deleted = 1

\* the local tiles that have a remote object of their name and of their size
SameSize == {n \in LocalTiles \cap RemoteTiles :
                SizeOf(local[n]) = remote[Key(bucket_prefix, n)].size}

\* C20: get_sync_actions reads and hashes exactly the local files that
\* have a remote object of the same name and the same size; a file whose
\* size differs from its remote object's is an update and is not hashed,
\* and no file to upload is hashed.
SizeFirst ==
    pc = "planned" =>
        /\ hashed = SameSize
        /\ \A n \in (LocalTiles \cap RemoteTiles) \ SameSize :
            n \in Range(plan.update) /\ n \notin hashed
        /\ hashed \cap Range(plan.upload) = {}

\* a file with the hash of its remote object but another size is an update
\* and was not hashed; a second file was hashed, a third is an upload
SizeFirstReached ==
    /\ pc = "planned"
    /\ \E n \in LocalTiles \cap RemoteTiles :
        /\ n \notin SameSize
        /\ MD5(local[n]) = remote[Key(bucket_prefix, n)].etag
        /\ n \in Range(plan.update)
        /\ n \notin hashed
    /\ hashed # {}
    /\ plan.upload # <<>>


(***************************************************************************)
(* Properties of get_current_objects.                                      *)
(***************************************************************************)
\* the .png keys of the bucket under the prefix, by relative path
PngObjects ==
    LET names == {k[2] : k \in {x \in DOMAIN remote :
                                    x[1] = bucket_prefix /\ EndsWithPng(x[2])}}
    IN [n \in names |-> <<remote[Key(bucket_prefix, n)].size,
                          remote[Key(bucket_prefix, n)].etag>>]

\* C21: get_current_objects follows the continuation tokens until a page
\* reports not truncated, for any number of pages: the call never ends by an
\* exception, every page after the first is requested with the token of the
\* page before it, and the mapping returned holds exactly the .png keys under
\* the prefix, by relative path, each with its (size, hash).
ListingExhausted ==
    pc = "get_current_objects" =>
        /\ frame.xpc # "KeyError"
        /\ \A i \in 1..Len(frame.requests) :
            frame.requests[i] =
                IF i = 1 THEN 0
                ELSE list_objects_v2(remote, bucket_prefix,
                        frame.requests[i - 1]).NextContinuationToken
        /\ frame.xpc = "returned" =>
            /\ frame.objects = PngObjects
            /\ ~list_objects_v2(remote, bucket_prefix,
                    frame.requests[Len(frame.requests)]).IsTruncated


(***************************************************************************)
(* Properties of generate as a whole.                                      *)
(***************************************************************************)
\* generate(create=True, upload=True) returned its result
GenerateReturned == pc \in {"returned", "done"}

\* C23: every run of generate with upload enabled that returns normally has
\* written the status object to the bucket, and the result it returns holds
\* the counts tile_new, tile_changed, tile_deleted and tile_failed, whatever
\* the create phase produced, an export of zero rows included.
StatusAlwaysWritten ==
    GenerateReturned =>
        /\ Key(bucket_prefix, StatusName) \in DOMAIN remote
        /\ remote[Key(bucket_prefix, StatusName)] = StatusObject
        /\ {"tile_new", "tile_changed", "tile_deleted", "tile_failed"}
                \subseteq DOMAIN result


(***************************************************************************)
(* Properties of main.                                                     *)
(***************************************************************************)
\* the validation and configuration failures: --upload without --create and
\* no --output or no tiles directory in it, --create without --upload and
\* without --output, upload without a bucket name or with a bucket whose
\* check did not pass
ValidationFailure ==
    \/ main.upload /\ ~main.create /\ (~main.output \/ TilesFolder \notin dirs)
    \/ main.create /\ ~main.upload /\ ~main.output
    \/ main.upload /\ ~main.bucket_name
    \/ main.upload /\ main.check \in {"fails", "raises"}

\* generate was not called: no job, no file, no command, the tiles and the
\* bucket as they were
NothingStarted ==
    /\ pc = "main"
    /\ jobs = <<>> /\ cmds = <<>>
    /\ csv_dir = <<>> /\ quadtree_dir = <<>> /\ shapes_dir = EmptyQuadtree
    /\ local \in {<<>>, EarlierLocal}
    /\ remote = EarlierRemote

\* main ended, by a return or by an exception
MainEnded == main.mpc \in {"exit", "raised"}

\* an exception other than an interrupt left generate
StageError ==
    pc = "aborted" /\ ~(wpc = "raised" /\ raised = "KeyboardInterrupt")

RunInterrupted ==
    main.mpc # "idle" /\ wpc = "raised" /\ raised = "KeyboardInterrupt"

\* C26: an interrupt raised while a stage awaits a job leaves watch_jobs, the
\* stage and generate: no later stage is started, no status object is
\* written, the error-tracking client is not called, and the run does not
\* end as a normal successful completion does, which is with exit code 0.
InterruptPropagates ==
    RunInterrupted =>
        /\ pc \in {"export", "encode", "merge", "render", "render2x",
                   "syncing", "aborted"}
        /\ Key(bucket_prefix, StatusName) \notin DOMAIN remote
        /\ ~main.captured
        /\ \A i \in 1..Len(calls) : calls[i].cb # "captureException"
        /\ MainEnded => main.exit_code # 0 /\ ~main.success


(***************************************************************************)
(* Properties of the error reporting of the sync stage.                    *)
(***************************************************************************)
\* C27: on a job failure watch_jobs reports to the error-tracking client, if
\* it has one, and only then calls on_error; and every failed upload, update
\* or delete job of sync_tiles, which generate always hands its raven_client
\* (line 181), is reported to the client exactly once.
SyncFailuresReported ==
    /\ \A i \in 1..Len(calls) :
        (calls[i].cb = "on_error" /\ cfg.raven_client) =>
            /\ i > 1
            /\ calls[i - 1].cb = "captureException"
            /\ calls[i - 1].job = calls[i].job
    /\ pc = "syncing" =>
        \A j \in 1..jobs_complete :
            status[j] = "fail" => NCalls("captureException", j) = 1


(***************************************************************************)
(* Properties of the jobs that run the external tools.                     *)
(***************************************************************************)
\* the stages of the create phase, which pass no on_error to watch_jobs
CreateStages == {"export", "encode", "merge", "render", "render2x"}

\* C25: a non-zero exit of an external tool fails the job that ran it, in
\* encode, merge, enumerate, render and quantize alike: no job whose tool
\* failed resolves as a success, so no render job that succeeded has left a
\* tile without its image, and since these stages pass no error handler a
\* failed job is never passed over: the stage aborts at it.
ToolFailureFailsJob ==
    pc \in CreateStages =>
        /\ \A j \in 1..Len(jobs) :
            (jobs[j].kind = "render" /\ status[j] = "ok")
                => local[jobs[j].paths[1]] # Truncated
        /\ \A j \in 1..jobs_complete : status[j] = "ok"
        /\ cfg.on_error = "None"


(***************************************************************************)
(* Properties of consecutive runs on one output directory.                 *)
(***************************************************************************)
\* the CSV files the export of the current run writes
CurrentCsv == ExportAll(<<>>, tables, Shards)

\* C24: on an output directory an earlier run has used, every artifact of
\* that run is removed before the stage that rebuilds it reads its inputs:
\* the encode jobs are for CSV files the current export wrote, and only for
\* them, the quadtree directory holds nothing but what the current jobs
\* wrote, and the global index holds the points of the current tables only.
NoStaleArtifacts ==
    /\ pc \in {"encode", "merge"} =>
        /\ \A j \in 1..Len(jobs) :
            jobs[j].kind = "encode" =>
                /\ jobs[j].paths[1] \in DOMAIN CurrentCsv
                /\ csv_dir[jobs[j].paths[1]] = CurrentCsv[jobs[j].paths[1]]
        /\ \A f \in DOMAIN quadtree_dir :
            \/ f \in DOMAIN csv_dir /\ quadtree_dir[f] = Encode(csv_dir[f])
            \/ f[1] = "map" /\ \E i \in 1..Len(cmds) : cmds[i].out = f
    /\ Len(GlobalMerges) = 1 =>
        \A p \in Points : shapes_dir[p] = IF p \in TablePoints THEN 1 ELSE 0


(***************************************************************************)
(* Properties of csv_to_quadtrees.                                         *)
(***************************************************************************)
\* the jobs of the current list for a file or a shard
JobsFor(kind, x) ==
    {j \in 1..Len(jobs) : jobs[j].kind = kind /\ jobs[j].paths[1] = x}
\* the shards that have submap files in the CSV directory
ShardsWithIntermediates == {n[2] : n \in {x \in DOMAIN csv_dir : x[1] = "submap"}}

\* C28: csv_to_quadtrees queues exactly one encode job per CSV file, into
\* the quadtree directory for a map_<shard>.csv and into the folder
\* submap_<shard> for a submap_<shard>_NNNN.csv; exactly one merge job per
\* shard with intermediates, which writes map_<shard>; it returns (encode
\* jobs, submap files, map files + shards with intermediates); and the
\* global merge reads the map_* quadtrees, all of them and nothing else.
BuildTopology ==
    /\ pc = "encode" =>
        /\ Len(jobs) = Cardinality(DOMAIN csv_dir)
        /\ \A f \in DOMAIN csv_dir : Cardinality(JobsFor("encode", f)) = 1
        /\ \A j \in 1..Len(jobs) :
            /\ jobs[j].kind = "encode"
            /\ jobs[j].dir = IF jobs[j].paths[1][1] = "map" THEN QuadtreeTop
                             ELSE SubmapDir(jobs[j].paths[1][2])
            /\ status[j] = "ok" =>
                /\ jobs[j].paths[1] \in DOMAIN quadtree_dir
                /\ quadtree_dir[jobs[j].paths[1]] = Encode(csv_dir[jobs[j].paths[1]])
    /\ pc = "merge" =>
        /\ Len(jobs) = Cardinality(ShardsWithIntermediates)
        /\ \A shard \in Range(Shards) :
            Cardinality(JobsFor("merge", shard))
                = IF shard \in ShardsWithIntermediates THEN 1 ELSE 0
        /\ \A j \in 1..Len(jobs) :
            status[j] = "ok" =>
                \E i \in 1..Len(cmds) :
                    /\ cmds[i].out = MapName(jobs[j].paths[1])
                    /\ cmds[i].inputs = Segments(jobs[j].paths[1])
        /\ result = [csv_count |-> Cardinality(DOMAIN csv_dir),
                     intermediate_count |->
                        Cardinality({n \in DOMAIN csv_dir : n[1] = "submap"}),
                     final_count |->
                        Cardinality({n \in DOMAIN csv_dir : n[1] = "map"})
                        + Cardinality(ShardsWithIntermediates)]
    /\ \A i \in 1..Len(cmds) :
        cmds[i].out = <<"shapes">> =>
            /\ cmds[i].inputs = {MapName(shard) : shard \in
                    {s \in Range(Shards) : \E n \in DOMAIN csv_dir : n[2] = s}}
            /\ \A f \in cmds[i].inputs : f[1] = "map"

\* a run with a single file for the south-west and two segments for the
\* north-east has merged the north-east and run the global merge
BuildTopologyReached ==
    /\ pc = "render"
    /\ DOMAIN csv_dir = {MapName("sw"), SubName(MapName("ne"), 1),
                         SubName(MapName("ne"), 2)}
    /\ Len(cmds) = 2
    /\ cmds[2].inputs = {MapName("ne"), MapName("sw")}


(***************************************************************************)
(* Properties of render_tiles_for_zoom_levels.                             *)
(***************************************************************************)
\* the tiles the enumerate tool reports for the pass that is running
EnumeratedTiles ==
    enumerate_tiles(shapes_dir, IF pc = "render" THEN max_zoom ELSE 0)

\* C29: while the render jobs of a pass are watched, the folder
\* <tiles_dir>/<zoom>/<x> of every enumerated tile exists, from the moment
\* the jobs are queued, so no render job fails on a missing folder; one
\* job is queued per enumerated tile, and the counts the passes return add
\* up to the numbers of enumerated tiles.
RenderFoldersFirst ==
    /\ pc \in {"render", "render2x"} =>
        /\ \A i \in 1..Len(EnumeratedTiles) :
            TileFolder(EnumeratedTiles[i]) \in dirs
        /\ Len(jobs) = Len(EnumeratedTiles)
        /\ \A j \in 1..Len(jobs) :
            /\ jobs[j].kind = "render"
            /\ FolderOf(jobs[j].paths[1]) \in dirs
            /\ status[j] # "fail"
            /\ Cardinality({k \in 1..Len(jobs) : jobs[k].paths = jobs[j].paths}) = 1
    /\ pc = "render2x" =>
        result.tile_count = Len(enumerate_tiles(shapes_dir, max_zoom))
    /\ (pc \in {"start", "returned"} /\ "tile_count" \in DOMAIN result) =>
        result.tile_count = Len(enumerate_tiles(shapes_dir, max_zoom))
                            + Len(enumerate_tiles(shapes_dir, 0))

\* both tiles of the first pass were rendered into their folders and the
\* second pass is being watched
RenderFoldersFirstReached ==
    /\ pc = "render2x"
    /\ result.tile_count = 2
    /\ {"0/0/0.png", "1/1/0.png"} \subseteq DOMAIN local
    /\ dirs = {"tiles", "tiles/0/0", "tiles/1/1"}
    /\ Len(jobs) = 1


(***************************************************************************)
(* Properties of the counts of sync_tiles.                                 *)
(***************************************************************************)
\* sum(result.values()) of sync_tiles
SyncCount ==
    result.tile_new + result.tile_changed + result.tile_deleted
    + result.tile_failed
\* the planned actions: uploads, updates and keys to delete
PlannedActions == Len(plan.upload) + Len(plan.update) + Len(plan.delete)
\* a delete request for more than one key failed
LargeDeleteFailed ==
    \E j \in 1..Len(jobs) :
        /\ jobs[j].kind = "delete"
        /\ Len(jobs[j].paths) > 1
        /\ status[j] = "fail"

\* C30: during sync_tiles the four counts add up to at most the number of
\* planned actions, which is the total of sync_tiles; when watch_jobs has
\* returned they add up to exactly that number if and only if no delete
\* request for more than one key failed; and every time on_progress of
\* sync_tiles runs the total is positive and the logged fraction is
\* between 0 and 1.
SyncAccounting ==
    pc = "syncing" =>
        /\ SyncTotal(plan) = PlannedActions
        /\ SyncCount <= PlannedActions
        /\ wpc = "done" => ((SyncCount = PlannedActions) <=> ~LargeDeleteFailed)
        /\ raised # "ZeroDivisionError"
        /\ \A i \in 1..Len(calls) :
            calls[i].cb = "on_progress" =>
                /\ PlannedActions > 0
                /\ i < Len(calls)
                /\ calls[i + 1].cb = "LOG.debug"
                /\ calls[i + 1].arg[2].den = PlannedActions
                /\ calls[i + 1].arg[2].num >= 0
                /\ calls[i + 1].arg[2].num <= calls[i + 1].arg[2].den

\* three keys were to be deleted in two requests, the request for two keys
\* failed after a progress report, and the counts fall one short
SyncAccountingReached ==
    /\ pc = "syncing"
    /\ wpc = "done"
    /\ Len(plan.delete) = 3
    /\ LargeDeleteFailed
    /\ SyncCount = PlannedActions - 1
    /\ \E i \in 1..Len(calls) : calls[i].cb = "LOG.debug"


(***************************************************************************)
(* Properties of the files export_to_csv leaves.                           *)
(***************************************************************************)
\* C31, as claimed: after export_to_csv returned (rows, n), exactly n files
\* of the shard are in the CSV directory, each holds at least one line, they
\* are map_<shard>.csv alone (n = 1) or submap_<shard>_0001 ..
\* submap_<shard>_n (n >= 2), and rows is the number of lines in them.
SegmentsNonEmpty ==
    ExportReturned =>
        /\ Cardinality(DOMAIN csv_dir) = frame.file_count
        /\ \A name \in DOMAIN csv_dir : csv_dir[name] # <<>>
        /\ frame.file_count = 1 => DOMAIN csv_dir = {frame.orig_file_path}
        /\ frame.file_count >= 2 => DOMAIN csv_dir = Numbered(frame.file_count)
        /\ frame.result_rows = SumLen(csv_dir, DOMAIN csv_dir)


(***************************************************************************)
(* Properties of cluster_wifis.                                            *)
(***************************************************************************)
\* cluster_wifis has returned its list of clusters
ClusterReturned == frame.xpc = "returned"
\* the networks of a cluster
Members(cluster) == {cluster[m] : m \in 1..Len(cluster)}
\* two networks are within the clustering distance of each other
Near(a, b) == distance(a.lat, a.lon, b.lat, b.lon) <= MAX_WIFI_CLUSTER_METERS
\* the networks of a set that a chain of near networks of the set links to
\* a network of S
RECURSIVE Linked(_, _)
Linked(S, all) ==
    LET T == S \cup {y \in all : \E x \in S : Near(x, y)}
    IN IF T = S THEN S ELSE Linked(T, all)
\* the place in the input list of the first-listed network of a cluster
FirstListed(cluster) == Min({a.mac : a \in Members(cluster)})

\* what the claim says of the returned clusters
SingleLinkageReturned ==
    LET clusters == frame.value
        flat == Concat(clusters)
    IN /\ Len(flat) = Len(frame.wifis)
       /\ Range(flat) = Range(frame.wifis)
       /\ \A k \in 1..Len(clusters) : clusters[k] # <<>>
       /\ \A k, l \in 1..Len(clusters) :
            k # l => \A a \in Members(clusters[k]), b \in Members(clusters[l]) :
                        ~Near(a, b) /\ ~Near(b, a)
       /\ \A k \in 1..Len(clusters) :
            \A a \in Members(clusters[k]) :
                Linked({a}, Members(clusters[k])) = Members(clusters[k])
       /\ \A k, l \in 1..Len(clusters) :
            k < l => FirstListed(clusters[k]) < FirstListed(clusters[l])

\* C32: cluster_wifis returns for every list of networks, and what it
\* returns is a partition of the networks (each in exactly one cluster) in
\* which two networks of different clusters are farther apart than
\* MAX_WIFI_CLUSTER_METERS, two networks of one cluster are linked by a
\* chain of networks of the cluster with steps of at most that distance,
\* and the clusters are in the order of their first-listed networks.
SingleLinkage ==
    /\ [](ClusterReturned => SingleLinkageReturned)
    /\ <>ClusterReturned

\* four networks at two places, listed alternately: two clusters of two, in
\* the order of the first and the second network
SingleLinkageReached ==
    /\ ClusterReturned
    /\ Len(frame.wifis) = 4
    /\ Len(frame.value) = 2
    /\ {a.mac : a \in Members(frame.value[1])} = {1, 3}
    /\ {a.mac : a \in Members(frame.value[2])} = {2, 4}

====
